---------------------------- MODULE Spec2Model ----------------------------
(***************************************************************************)
(* State-machine model of the concurrency examples of                      *)
(* mintecr7/concurrency-with-go and of the sync primitives they are built  *)
(* on (Mutex, RWMutex, Once, WaitGroup).                                   *)
(*                                                                         *)
(* Goroutines are numbered: Main is the goroutine that runs the example    *)
(* function, 1..k are the goroutines it starts.  pc[g] is the statement a  *)
(* goroutine is about to execute, "idle" before its go statement, "done"   *)
(* after it returned.  Every example has its own Init and Next over the    *)
(* same variables; the variables an example does not use keep their zero   *)
(* values.                                                                 *)
(***************************************************************************)
EXTENDS Integers, Sequences, FiniteSets, TLC

VARIABLES
    pc,     \* goroutine -> label of its next statement
    loc,    \* goroutine -> its local variables (a record)
    mem,    \* shared variables of the example, by their source name
    mutex,  \* sync.Mutex name -> locked?
    wg,     \* the sync.WaitGroup: counter v, waiter count w, semaphore sema
    rw,     \* the sync.RWMutex
    once,   \* sync.Once name -> done flag (its mutex m lives in mutex)
    cfg     \* the inputs of the run, fixed by Init

vars == <<pc, loc, mem, mutex, wg, rw, once, cfg>>

Main == 0

(***************************************************************************)
(* Bounds of the model.                                                    *)
(***************************************************************************)
MaxN == 3
MaxLoops == 2
MaxOps == 1
MaxCallers == 2
MaxWaiters == 1
MaxCalls == 2

Workers == 1..MaxN
Goroutines == {Main} \cup Workers

Goto(g, l) == pc' = [pc EXCEPT ![g] = l]

(***************************************************************************)
(* Zero values.                                                            *)
(***************************************************************************)
ZeroWaitGroup == [v |-> 0, w |-> 0, sema |-> 0, panic |-> "none"]
ZeroRWMutex == [readerCount |-> 0, readerWait |-> 0, pending |-> FALSE,
                readerSem |-> {}, readerWake |-> {}, writerSem |-> FALSE,
                unlocks |-> 0]
Mutexes == {"mu", "sharedLock", "memoryAccess", "rw.w", "once.m", "onceDB.m", "onceCache.m",
            "c.once.m", "cp.once.m", "c.L", "a.mu", "b.mu"}
Onces == {"once", "onceDB", "onceCache", "c.once", "cp.once"}
\* mutex["fatal"] records the runtime's "fatal error: sync: unlock of
\* unlocked mutex", which ends the program
NoMutex == [m \in Mutexes \cup {"fatal"} |-> FALSE]
NoOnce == [o \in Onces |-> FALSE]

(***************************************************************************)
(* sync.Mutex.  Lock blocks until the mutex is unlocked and locks it;      *)
(* Unlock unlocks it.                                                      *)
(***************************************************************************)
MutexLock(m) ==
    /\ mutex[m] = FALSE
    /\ mutex' = [mutex EXCEPT ![m] = TRUE]

\* an Unlock that does nothing on an unlocked mutex
MutexUnlockSilent(m) ==
    mutex' = [mutex EXCEPT ![m] = FALSE]

MutexUnlock(m) ==
    mutex' = IF mutex[m] THEN [mutex EXCEPT ![m] = FALSE]
             ELSE [mutex EXCEPT !["fatal"] = TRUE]

(***************************************************************************)
(* sync.WaitGroup.  Add(delta) adds delta to the counter; a counter that   *)
(* reaches zero releases every goroutine blocked in Wait.  Wait returns    *)
(* at once when the counter is zero and otherwise registers as a waiter    *)
(* and sleeps on the semaphore.                                            *)
(***************************************************************************)
WgAfterAddWakeOne(s, delta) ==
    LET v == s.v + delta IN
    IF v < 0 THEN [s EXCEPT !.v = v, !.panic = "negative counter"]
    ELSE IF v > 0 \/ s.w = 0 THEN [s EXCEPT !.v = v]
    ELSE [s EXCEPT !.v = 0, !.w = s.w - 1, !.sema = s.sema + 1]

WgAfterAddNoPanic(s, delta) ==
    LET v == s.v + delta IN
    IF v > 0 \/ s.w = 0 THEN [s EXCEPT !.v = v]
    ELSE [s EXCEPT !.v = v, !.w = 0, !.sema = s.sema + s.w]

WgAfterAdd(s, delta) ==
    LET v == s.v + delta IN
    IF v < 0 THEN [s EXCEPT !.v = v, !.panic = "negative counter"]
    ELSE IF v > 0 \/ s.w = 0 THEN [s EXCEPT !.v = v]
    ELSE [s EXCEPT !.v = 0, !.w = 0, !.sema = s.sema + s.w]

WgAdd(delta) == wg' = WgAfterAdd(wg, delta)

WgDone == WgAdd(-1)

\* a Wait that goes to sleep whatever the counter is
WgWaitEnterParks(g, blocked, returned) ==
    /\ Goto(g, blocked)
    /\ wg' = [wg EXCEPT !.w = @ + 1]

\* Wait's first half: true when Wait returns at once.
WgWaitEnter(g, blocked, returned) ==
    IF wg.v = 0
    THEN /\ Goto(g, returned)
         /\ UNCHANGED wg
    ELSE /\ Goto(g, blocked)
         /\ wg' = [wg EXCEPT !.w = @ + 1]

\* Wait's second half: the sleeping waiter takes a semaphore token.
WgWaitWake(g, returned) ==
    /\ wg.sema > 0
    /\ wg' = [wg EXCEPT !.sema = @ - 1]
    /\ Goto(g, returned)

(***************************************************************************)
(* goodAtomicityWithMutex / withMutex: cfg.n goroutines each run           *)
(* mu.Lock(); counter++; mu.Unlock() and main waits for them.              *)
(* counter++ is a read into a register followed by a write.                *)
(***************************************************************************)
InitCounter ==
    /\ cfg \in [n : 1..MaxN]
    /\ pc = [g \in Goroutines |-> IF g = Main THEN "add" ELSE "idle"]
    /\ loc = [g \in Goroutines |-> [i |-> 0, tmp |-> 0]]
    /\ mem = [counter |-> 0]
    /\ mutex = NoMutex
    /\ wg = ZeroWaitGroup
    /\ rw = ZeroRWMutex
    /\ once = NoOnce

\* for i := 0; i < 1000; i++ { wg.Add(1) ...
CounterAdd ==
    /\ pc[Main] = "add"
    /\ IF loc[Main].i < cfg.n
       THEN WgAdd(1) /\ Goto(Main, "go")
       ELSE UNCHANGED wg /\ Goto(Main, "wait")
    /\ UNCHANGED <<loc, mem, mutex, rw, once, cfg>>

\* ... go func() {...}() }
CounterGo ==
    /\ pc[Main] = "go"
    /\ pc' = [pc EXCEPT ![Main] = "add", ![loc[Main].i + 1] = "lock"]
    /\ loc' = [loc EXCEPT ![Main].i = @ + 1]
    /\ UNCHANGED <<mem, mutex, wg, rw, once, cfg>>

CounterLockUnguarded(g) ==
    /\ pc[g] = "lock"
    /\ mutex' = [mutex EXCEPT !["mu"] = TRUE]
    /\ Goto(g, "read")
    /\ UNCHANGED <<loc, mem, wg, rw, once, cfg>>

CounterLock(g) ==
    /\ pc[g] = "lock"
    /\ MutexLock("mu")
    /\ Goto(g, "read")
    /\ UNCHANGED <<loc, mem, wg, rw, once, cfg>>

CounterRead(g) ==
    /\ pc[g] = "read"
    /\ loc' = [loc EXCEPT ![g].tmp = mem.counter]
    /\ Goto(g, "write")
    /\ UNCHANGED <<mem, mutex, wg, rw, once, cfg>>

CounterWrite(g) ==
    /\ pc[g] = "write"
    /\ mem' = [mem EXCEPT !.counter = loc[g].tmp + 1]
    /\ Goto(g, "unlock")
    /\ UNCHANGED <<loc, mutex, wg, rw, once, cfg>>

CounterUnlock(g) ==
    /\ pc[g] = "unlock"
    /\ MutexUnlock("mu")
    /\ Goto(g, "wgdone")
    /\ UNCHANGED <<loc, mem, wg, rw, once, cfg>>

\* defer wg.Done()
CounterDone(g) ==
    /\ pc[g] = "wgdone"
    /\ WgDone
    /\ Goto(g, "done")
    /\ UNCHANGED <<loc, mem, mutex, rw, once, cfg>>

CounterWait ==
    /\ pc[Main] = "wait"
    /\ WgWaitEnter(Main, "sem", "done")
    /\ UNCHANGED <<loc, mem, mutex, rw, once, cfg>>

CounterWaitWake ==
    /\ pc[Main] = "sem"
    /\ WgWaitWake(Main, "done")
    /\ UNCHANGED <<loc, mem, mutex, rw, once, cfg>>

NextCounter ==
    \/ CounterAdd
    \/ CounterGo
    \/ CounterWait
    \/ CounterWaitWake
    \/ \E g \in Workers : CounterLock(g)
    \/ \E g \in Workers : CounterRead(g)
    \/ \E g \in Workers : CounterWrite(g)
    \/ \E g \in Workers : CounterUnlock(g)
    \/ \E g \in Workers : CounterDone(g)

SpecCounter == InitCounter /\ [][NextCounter]_vars

\* C1: for every N >= 1, once all N goroutines that run
\* Lock(); counter++; Unlock() have finished, counter equals N exactly.
C1_NoLostUpdate ==
    (\A g \in 1..cfg.n : pc[g] = "done") => mem.counter = cfg.n

C1_Witness ==
    /\ cfg.n = MaxN
    /\ \A g \in 1..cfg.n : pc[g] = "done"
    /\ pc[Main] = "done"
    /\ mem.counter = MaxN

(***************************************************************************)
(* runStarvation: the polite worker locks sharedLock three times per loop  *)
(* iteration, the greedy worker once; both loop while                      *)
(* time.Since(begin) <= runtime, which the model decides freely (at most   *)
(* MaxLoops iterations each).                                              *)
(***************************************************************************)
Polite == 1
Greedy == 2
StarveWorkers == {Polite, Greedy}

\* The Lock() calls of one loop iteration: 3 for the polite worker, 1 for
\* the greedy one.
Sections(g) == IF g = Polite THEN 3 ELSE 1

InitStarvation ==
    /\ cfg = [n |-> 2]
    /\ pc = [g \in {Main} \cup StarveWorkers |-> IF g = Main THEN "add" ELSE "idle"]
    /\ loc = [g \in {Main} \cup StarveWorkers |-> [count |-> 0, section |-> 1]]
    /\ mem = [counter |-> 0]
    /\ mutex = NoMutex
    /\ wg = ZeroWaitGroup
    /\ rw = ZeroRWMutex
    /\ once = NoOnce

\* wG.Add(2)
StarveAdd ==
    /\ pc[Main] = "add"
    /\ WgAdd(2)
    /\ Goto(Main, "goPolite")
    /\ UNCHANGED <<loc, mem, mutex, rw, once, cfg>>

\* go politeWorker()
StarveGoPolite ==
    /\ pc[Main] = "goPolite"
    /\ pc' = [pc EXCEPT ![Main] = "goGreedy", ![Polite] = "for"]
    /\ UNCHANGED <<loc, mem, mutex, wg, rw, once, cfg>>

\* go greedyWorker()
StarveGoGreedy ==
    /\ pc[Main] = "goGreedy"
    /\ pc' = [pc EXCEPT ![Main] = "wait", ![Greedy] = "for"]
    /\ UNCHANGED <<loc, mem, mutex, wg, rw, once, cfg>>

StarveWait ==
    /\ pc[Main] = "wait"
    /\ WgWaitEnter(Main, "sem", "done")
    /\ UNCHANGED <<loc, mem, mutex, rw, once, cfg>>

StarveWaitWake ==
    /\ pc[Main] = "sem"
    /\ WgWaitWake(Main, "done")
    /\ UNCHANGED <<loc, mem, mutex, rw, once, cfg>>

\* for begin := time.Now(); time.Since(begin) <= runtime; { ... }
StarveFor(g) ==
    /\ pc[g] = "for"
    /\ \/ /\ loc[g].count < MaxLoops
          /\ Goto(g, "lock")
       \/ Goto(g, "wgdone")
    /\ UNCHANGED <<loc, mem, mutex, wg, rw, once, cfg>>

StarveLockUnguarded(g) ==
    /\ pc[g] = "lock"
    /\ mutex' = [mutex EXCEPT !["sharedLock"] = TRUE]
    /\ Goto(g, "sleep")
    /\ UNCHANGED <<loc, mem, wg, rw, once, cfg>>

\* sharedLock.Lock()
StarveLock(g) ==
    /\ pc[g] = "lock"
    /\ MutexLock("sharedLock")
    /\ Goto(g, "sleep")
    /\ UNCHANGED <<loc, mem, wg, rw, once, cfg>>

\* time.Sleep(...) inside the critical section
StarveSleep(g) ==
    /\ pc[g] = "sleep"
    /\ Goto(g, "unlock")
    /\ UNCHANGED <<loc, mem, mutex, wg, rw, once, cfg>>

\* a worker that leaves its critical section without unlocking
StarveUnlockKept(g) ==
    /\ pc[g] = "unlock"
    /\ IF loc[g].section < Sections(g)
       THEN /\ loc' = [loc EXCEPT ![g].section = @ + 1]
            /\ Goto(g, "lock")
       ELSE /\ loc' = [loc EXCEPT ![g].section = 1]
            /\ Goto(g, "inc")
    /\ UNCHANGED <<mem, mutex, wg, rw, once, cfg>>

\* sharedLock.Unlock(), followed by the next section's Lock or by count++
StarveUnlock(g) ==
    /\ pc[g] = "unlock"
    /\ MutexUnlock("sharedLock")
    /\ IF loc[g].section < Sections(g)
       THEN /\ loc' = [loc EXCEPT ![g].section = @ + 1]
            /\ Goto(g, "lock")
       ELSE /\ loc' = [loc EXCEPT ![g].section = 1]
            /\ Goto(g, "inc")
    /\ UNCHANGED <<mem, wg, rw, once, cfg>>

\* count++
StarveInc(g) ==
    /\ pc[g] = "inc"
    /\ loc' = [loc EXCEPT ![g].count = @ + 1]
    /\ Goto(g, "for")
    /\ UNCHANGED <<mem, mutex, wg, rw, once, cfg>>

\* defer wG.Done()
StarveDone(g) ==
    /\ pc[g] = "wgdone"
    /\ WgDone
    /\ Goto(g, "done")
    /\ UNCHANGED <<loc, mem, mutex, rw, once, cfg>>

NextStarvation ==
    \/ StarveAdd
    \/ StarveGoPolite
    \/ StarveGoGreedy
    \/ StarveWait
    \/ StarveWaitWake
    \/ \E g \in StarveWorkers : StarveFor(g)
    \/ \E g \in StarveWorkers : StarveLock(g)
    \/ \E g \in StarveWorkers : StarveSleep(g)
    \/ \E g \in StarveWorkers : StarveUnlock(g)
    \/ \E g \in StarveWorkers : StarveInc(g)
    \/ \E g \in StarveWorkers : StarveDone(g)

SpecStarvation == InitStarvation /\ [][NextStarvation]_vars

StarveStep(g) ==
    \/ StarveFor(g)
    \/ StarveLock(g)
    \/ StarveSleep(g)
    \/ StarveUnlock(g)
    \/ StarveInc(g)
    \/ StarveDone(g)

\* Every worker that can run is eventually run.  Both loops end when the
\* run time is over, so a worker keeps the other out of sharedLock for
\* finitely many lock/unlock cycles only.
FairSpecStarvation ==
    SpecStarvation /\ \A g \in StarveWorkers : WF_vars(StarveStep(g))

\* A goroutine is inside a sharedLock critical section from the return of
\* Lock() to its Unlock().
InCritical(g) == pc[g] \in {"sleep", "unlock"}

\* C2: the polite and the greedy worker are never inside a sharedLock
\* critical section at the same time.
C2_MutualExclusion ==
    Cardinality({g \in StarveWorkers : InCritical(g)}) <= 1

\* The polite worker is in its third section while the greedy worker is
\* blocked in Lock().
C2_Witness ==
    /\ InCritical(Polite)
    /\ loc[Polite].section = 3
    /\ pc[Greedy] = "lock"
    /\ mutex["sharedLock"] = TRUE

(***************************************************************************)
(* sync.RWMutex.  readerCount counts the readers that called RLock and     *)
(* have not yet called RUnlock; pending says that a writer has announced   *)
(* itself (Lock holds the writers' mutex rw.w from its first step to the   *)
(* end of Unlock); readerWait is the number of readers the announced       *)
(* writer still waits for.  A reader that calls RLock while a writer is    *)
(* pending sleeps in readerSem until that writer's Unlock moves it to      *)
(* readerWake.  unlocks counts the completed write unlocks.                *)
(***************************************************************************)
\* RLock: TRUE in acquired when the caller got the lock at once.
RwRLockNoCheck(g, acquired, blocked) ==
    /\ rw' = [rw EXCEPT !.readerCount = @ + 1]
    /\ Goto(g, acquired)

RwRLock(g, acquired, blocked) ==
    IF rw.pending
    THEN /\ rw' = [rw EXCEPT !.readerCount = @ + 1, !.readerSem = @ \cup {g}]
         /\ Goto(g, blocked)
    ELSE /\ rw' = [rw EXCEPT !.readerCount = @ + 1]
         /\ Goto(g, acquired)

\* The rest of a blocked RLock: the writer's Unlock has woken the reader.
RwRLockWake(g, acquired) ==
    /\ g \in rw.readerWake
    /\ rw' = [rw EXCEPT !.readerWake = @ \ {g}]
    /\ Goto(g, acquired)

\* an RUnlock that never wakes the writer
RwRUnlockNoWake ==
    rw' = IF rw.pending
          THEN [rw EXCEPT !.readerCount = @ - 1, !.readerWait = @ - 1]
          ELSE [rw EXCEPT !.readerCount = @ - 1]

\* RUnlock: the last reader a pending writer waits for wakes that writer.
RwRUnlock ==
    rw' = IF rw.pending
          THEN [rw EXCEPT !.readerCount = @ - 1,
                          !.readerWait = @ - 1,
                          !.writerSem = (rw.readerWait - 1 = 0)]
          ELSE [rw EXCEPT !.readerCount = @ - 1]

\* Lock, after it locked rw.w: announce the writer and wait for the active
\* readers, if any.
RwLockAnnounceLate(g, acquired, blocked) ==
    IF rw.readerCount # 0
    THEN /\ UNCHANGED rw
         /\ Goto(g, blocked)
    ELSE /\ rw' = [rw EXCEPT !.pending = TRUE]
         /\ Goto(g, acquired)

\* a Lock that does not wait for the readers
RwLockAnnounceNoWait(g, acquired, blocked) ==
    /\ rw' = [rw EXCEPT !.pending = TRUE]
    /\ Goto(g, acquired)

RwLockAnnounce(g, acquired, blocked) ==
    IF rw.readerCount # 0
    THEN /\ rw' = [rw EXCEPT !.pending = TRUE, !.readerWait = rw.readerCount]
         /\ Goto(g, blocked)
    ELSE /\ rw' = [rw EXCEPT !.pending = TRUE]
         /\ Goto(g, acquired)

\* The rest of a blocked Lock: the last active reader has left.
RwLockWake(g, acquired) ==
    /\ rw.writerSem
    /\ rw' = [rw EXCEPT !.writerSem = FALSE]
    /\ Goto(g, acquired)

\* Unlock: announce that no writer is active and wake the blocked readers
\* (rw.w is unlocked in the caller's next step).
RwUnlock ==
    rw' = [rw EXCEPT !.pending = FALSE,
                     !.readerWake = @ \cup rw.readerSem,
                     !.readerSem = {},
                     !.unlocks = @ + 1]

(***************************************************************************)
(* Cache / basicRWMutex: every goroutine makes up to MaxOps calls, each a  *)
(* Get (read under RLock) or a Set (write under Lock), as the readers and  *)
(* the writer of basicRWMutex and cacheExample do.                         *)
(***************************************************************************)
InitCache ==
    /\ cfg = [n |-> MaxN]
    /\ pc = [g \in Workers |-> "call"]
    /\ loc = [g \in Workers |-> [ops |-> 0, value |-> 0, after |-> -1]]
    /\ mem = [data |-> 0]
    /\ mutex = NoMutex
    /\ wg = ZeroWaitGroup
    /\ rw = ZeroRWMutex
    /\ once = NoOnce

\* The goroutine's next call: cache.Get, cache.Set, or return.
CacheCall(g) ==
    /\ pc[g] = "call"
    /\ \/ /\ loc[g].ops < MaxOps
          /\ loc' = [loc EXCEPT ![g].ops = @ + 1]
          /\ \/ Goto(g, "rlock")
             \/ Goto(g, "wlock")
       \/ /\ Goto(g, "done")
          /\ UNCHANGED loc
    /\ UNCHANGED <<mem, mutex, wg, rw, once, cfg>>

\* A writer that has called Lock() while readers hold the lock and has not
\* acquired it yet.
WriterQueued == \E w \in Workers : pc[w] = "wsem"

\* c.mu.RLock(); loc.after remembers a writer queued at that moment.
CacheRLock(g) ==
    /\ pc[g] = "rlock"
    /\ RwRLock(g, "get", "rsem")
    /\ loc' = [loc EXCEPT ![g].after = IF WriterQueued THEN rw.unlocks ELSE -1]
    /\ UNCHANGED <<mem, mutex, wg, once, cfg>>

CacheRLockWake(g) ==
    /\ pc[g] = "rsem"
    /\ RwRLockWake(g, "get")
    /\ UNCHANGED <<loc, mem, mutex, wg, once, cfg>>

\* value, exists := c.data[key]
CacheGet(g) ==
    /\ pc[g] = "get"
    /\ loc' = [loc EXCEPT ![g].value = mem.data]
    /\ Goto(g, "runlock")
    /\ UNCHANGED <<mem, mutex, wg, rw, once, cfg>>

\* defer c.mu.RUnlock()
CacheRUnlock(g) ==
    /\ pc[g] = "runlock"
    /\ RwRUnlock
    /\ Goto(g, "call")
    /\ loc' = [loc EXCEPT ![g].after = -1, ![g].value = 0]
    /\ UNCHANGED <<mem, mutex, wg, once, cfg>>

\* c.mu.Lock(), first step: the writers' mutex
CacheLockW(g) ==
    /\ pc[g] = "wlock"
    /\ MutexLock("rw.w")
    /\ Goto(g, "announce")
    /\ UNCHANGED <<loc, mem, wg, rw, once, cfg>>

\* c.mu.Lock(), second step
CacheLockAnnounce(g) ==
    /\ pc[g] = "announce"
    /\ RwLockAnnounce(g, "set", "wsem")
    /\ UNCHANGED <<loc, mem, mutex, wg, once, cfg>>

CacheLockWake(g) ==
    /\ pc[g] = "wsem"
    /\ RwLockWake(g, "set")
    /\ UNCHANGED <<loc, mem, mutex, wg, once, cfg>>

\* c.data[key] = value
CacheSet(g) ==
    /\ pc[g] = "set"
    /\ mem' = [mem EXCEPT !.data = 1]
    /\ Goto(g, "unlock")
    /\ UNCHANGED <<loc, mutex, wg, rw, once, cfg>>

\* defer c.mu.Unlock(), first step
CacheUnlock(g) ==
    /\ pc[g] = "unlock"
    /\ RwUnlock
    /\ Goto(g, "unlockw")
    /\ UNCHANGED <<loc, mem, mutex, wg, once, cfg>>

\* defer c.mu.Unlock(), second step: allow other writers to proceed
CacheUnlockW(g) ==
    /\ pc[g] = "unlockw"
    /\ MutexUnlock("rw.w")
    /\ Goto(g, "call")
    /\ UNCHANGED <<loc, mem, wg, rw, once, cfg>>

NextCache ==
    \/ \E g \in Workers : CacheCall(g)
    \/ \E g \in Workers : CacheRLock(g)
    \/ \E g \in Workers : CacheRLockWake(g)
    \/ \E g \in Workers : CacheGet(g)
    \/ \E g \in Workers : CacheRUnlock(g)
    \/ \E g \in Workers : CacheLockW(g)
    \/ \E g \in Workers : CacheLockAnnounce(g)
    \/ \E g \in Workers : CacheLockWake(g)
    \/ \E g \in Workers : CacheSet(g)
    \/ \E g \in Workers : CacheUnlock(g)
    \/ \E g \in Workers : CacheUnlockW(g)

SpecCache == InitCache /\ [][NextCache]_vars

\* The goroutines between a returned RLock() and its RUnlock(), and those
\* between a returned Lock() and its Unlock().
ReadHolders == {g \in Workers : pc[g] \in {"get", "runlock"}}
WriteHolders == {g \in Workers : pc[g] \in {"set", "unlock"}}

\* C3: no state has a writer holding the RWMutex while the number of
\* readers holding it is greater than zero, and no state has two writers
\* holding it.
C3_WriterExcludesReaders ==
    /\ ~(WriteHolders # {} /\ Cardinality(ReadHolders) > 0)
    /\ Cardinality(WriteHolders) <= 1

\* A writer holds the lock while a reader sleeps in RLock() behind it and
\* a second writer is blocked in Lock().
C3_Witness ==
    /\ Cardinality(WriteHolders) = 1
    /\ \E g \in Workers : pc[g] = "rsem"
    /\ \E g \in Workers : pc[g] = "wlock"

\* C4: an RLock() that started after a writer had called Lock() on an
\* RWMutex held by readers has not returned unless that writer has since
\* acquired and released the lock.
C4_NoReaderOvertakesWriter ==
    \A g \in ReadHolders : loc[g].after >= 0 => rw.unlocks > loc[g].after

\* A reader that called RLock() behind a queued writer while another
\* reader was still active, and now holds the lock.
C4_Witness ==
    \E g \in ReadHolders : loc[g].after >= 0 /\ rw.unlocks > loc[g].after

(***************************************************************************)
(* sync.Once.  Do(f) returns at once when the done flag is set (the fast   *)
(* path); otherwise it locks the Once's mutex, checks the flag again and,  *)
(* if it is still clear, runs f and sets the flag before it unlocks.       *)
(* once[o] is the done flag of the Once o, OnceM[o] the name of its mutex. *)
(***************************************************************************)
OnceM == [o \in Onces |->
            CASE o = "once" -> "once.m"
              [] o = "onceDB" -> "onceDB.m"
              [] o = "onceCache" -> "onceCache.m"
              [] o = "c.once" -> "c.once.m"
              [] o = "cp.once" -> "cp.once.m"]

\* The functions of the examples that call Do: the Once and the action.
CounterCalls == {[o |-> "once", f |-> "increment"],
                 [o |-> "once", f |-> "decrement"]}
ServiceCalls == {[o |-> "onceDB", f |-> "initDB"],
                 [o |-> "onceCache", f |-> "initCache"]}
LazyCalls == {[o |-> "c.once", f |-> "load"],
              [o |-> "once", f |-> "newSingleton"]}
PoolCalls == {[o |-> "cp.once", f |-> "connect"]}

OnceCallers == 1..MaxCallers

InitOnce(families) ==
    /\ cfg \in [n : 1..MaxCallers, calls : families]
    /\ pc = [g \in OnceCallers |-> IF g <= cfg.n THEN "call" ELSE "idle"]
    /\ loc = [g \in OnceCallers |->
                [calls |-> 0, o |-> "once", f |-> "none", tmp |-> 0,
                 late |-> FALSE, first |-> "none", rets |-> <<>>]]
    /\ mem = [count |-> 0, db |-> "", cache |-> "", values |-> 0,
              instance |-> 0, conn |-> "", err |-> "nil",
              ran |-> [o \in Onces |-> <<>>],
              called |-> [o \in Onces |-> FALSE],
              returned |-> [o \in Onces |-> FALSE]]
    /\ mutex = NoMutex
    /\ wg = ZeroWaitGroup
    /\ rw = ZeroRWMutex
    /\ once = NoOnce

\* The goroutine calls one of the example's functions (at most MaxCalls
\* times, at least once) or returns.  late remembers whether a Do on the
\* same Once had already returned when this call started, first the action
\* of the goroutine's first call, called the Onces Do was called on.
OnceCall(g) ==
    /\ pc[g] = "call"
    /\ \/ /\ loc[g].calls < MaxCalls
          /\ \E c \in cfg.calls :
                /\ loc' = [loc EXCEPT ![g].calls = @ + 1,
                                      ![g].o = c.o,
                                      ![g].f = c.f,
                                      ![g].late = mem.returned[c.o],
                                      ![g].first = IF @ = "none" THEN c.f ELSE @]
                /\ mem' = [mem EXCEPT !.called[c.o] = TRUE]
          /\ Goto(g, "do")
       \/ /\ loc[g].calls >= 1
          /\ Goto(g, "done")
          /\ UNCHANGED <<loc, mem>>
    /\ UNCHANGED <<mutex, wg, rw, once, cfg>>

\* if o.done.Load() == 0 { o.doSlow(f) }
OnceDo(g) ==
    /\ pc[g] = "do"
    /\ IF once[loc[g].o] THEN Goto(g, "ret") ELSE Goto(g, "slowLock")
    /\ UNCHANGED <<loc, mem, mutex, wg, rw, once, cfg>>

\* o.m.Lock()
OnceSlowLock(g) ==
    /\ pc[g] = "slowLock"
    /\ MutexLock(OnceM[loc[g].o])
    /\ Goto(g, "slowCheck")
    /\ UNCHANGED <<loc, mem, wg, rw, once, cfg>>

OnceSlowNoCheck(g) ==
    /\ pc[g] = "slowCheck"
    /\ mem' = [mem EXCEPT !.ran[loc[g].o] = Append(@, loc[g].f)]
    /\ Goto(g, "f1")
    /\ UNCHANGED <<loc, mutex, wg, rw, once, cfg>>

OnceSlowCheckStoreFirst(g) ==
    /\ pc[g] = "slowCheck"
    /\ IF once[loc[g].o]
       THEN /\ Goto(g, "slowUnlock")
            /\ UNCHANGED <<mem, once>>
       ELSE /\ mem' = [mem EXCEPT !.ran[loc[g].o] = Append(@, loc[g].f)]
            /\ once' = [once EXCEPT ![loc[g].o] = TRUE]
            /\ Goto(g, "f1")
    /\ UNCHANGED <<loc, mutex, wg, rw, cfg>>

\* if o.done.Load() == 0 { defer o.done.Store(1); f() }
OnceSlowCheck(g) ==
    /\ pc[g] = "slowCheck"
    /\ IF once[loc[g].o]
       THEN /\ Goto(g, "slowUnlock")
            /\ UNCHANGED mem
       ELSE /\ mem' = [mem EXCEPT !.ran[loc[g].o] = Append(@, loc[g].f)]
            /\ Goto(g, "f1")
    /\ UNCHANGED <<loc, mutex, wg, rw, once, cfg>>

OnceStoreNothing(g) ==
    /\ pc[g] = "store"
    /\ Goto(g, "slowUnlock")
    /\ UNCHANGED <<loc, mem, mutex, wg, rw, once, cfg>>

OnceStoreUnlessFailed(g) ==
    /\ pc[g] = "store"
    /\ once' = [once EXCEPT ![loc[g].o] = (mem.err = "nil")]
    /\ Goto(g, "slowUnlock")
    /\ UNCHANGED <<loc, mem, mutex, wg, rw, cfg>>

\* the deferred o.done.Store(1)
OnceStore(g) ==
    /\ pc[g] = "store"
    /\ once' = [once EXCEPT ![loc[g].o] = TRUE]
    /\ Goto(g, "slowUnlock")
    /\ UNCHANGED <<loc, mem, mutex, wg, rw, cfg>>

\* the deferred o.m.Unlock()
OnceSlowUnlock(g) ==
    /\ pc[g] = "slowUnlock"
    /\ MutexUnlock(OnceM[loc[g].o])
    /\ Goto(g, "ret")
    /\ UNCHANGED <<loc, mem, wg, rw, once, cfg>>

\* What the calling function returns after Do: c.values, instance, cp.err.
Result(f) ==
    CASE f = "load" -> mem.values
      [] f = "newSingleton" -> mem.instance
      [] f = "connect" -> mem.err
      [] OTHER -> "void"

\* Do has returned; the function returns its result to the goroutine.
OnceReturn(g) ==
    /\ pc[g] = "ret"
    /\ loc' = [loc EXCEPT ![g].rets = Append(@, Result(loc[g].f))]
    /\ mem' = [mem EXCEPT !.returned[loc[g].o] = TRUE]
    /\ Goto(g, "call")
    /\ UNCHANGED <<mutex, wg, rw, once, cfg>>

(***************************************************************************)
(* The actions passed to Do.                                               *)
(***************************************************************************)
IsCount(f) == f \in {"increment", "decrement"}

\* count++ / count--: the read
FCountRead(g) ==
    /\ pc[g] = "f1"
    /\ IsCount(loc[g].f)
    /\ loc' = [loc EXCEPT ![g].tmp = mem.count]
    /\ Goto(g, "f2")
    /\ UNCHANGED <<mem, mutex, wg, rw, once, cfg>>

\* count++ / count--: the write
FCountWrite(g) ==
    /\ pc[g] = "f2"
    /\ IsCount(loc[g].f)
    /\ mem' = [mem EXCEPT !.count = IF loc[g].f = "increment"
                                    THEN loc[g].tmp + 1
                                    ELSE loc[g].tmp - 1]
    /\ loc' = [loc EXCEPT ![g].tmp = 0]
    /\ Goto(g, "store")
    /\ UNCHANGED <<mutex, wg, rw, once, cfg>>

\* time.Sleep(...) at the start of the initialising actions
FSleep(g) ==
    /\ pc[g] = "f1"
    /\ ~IsCount(loc[g].f)
    /\ Goto(g, "f2")
    /\ UNCHANGED <<loc, mem, mutex, wg, rw, once, cfg>>

\* s.db = ..., s.cache = ..., c.values = map..., instance = &Singleton{...}
\* A map or a Singleton is named by the number of the execution that made
\* it (1 for the first); 0 is nil.
FAssign(g) ==
    /\ pc[g] = "f2"
    /\ loc[g].f \in {"initDB", "initCache", "load", "newSingleton"}
    /\ mem' = CASE loc[g].f = "initDB" -> [mem EXCEPT !.db = "db_connected"]
                [] loc[g].f = "initCache" -> [mem EXCEPT !.cache = "cache_connected"]
                [] loc[g].f = "load" ->
                        [mem EXCEPT !.values = Len(mem.ran["c.once"])]
                [] loc[g].f = "newSingleton" ->
                        [mem EXCEPT !.instance = Len(mem.ran["once"])]
    /\ Goto(g, "store")
    /\ UNCHANGED <<loc, mutex, wg, rw, once, cfg>>

\* if time.Now().Unix()%2 == 0 { cp.err = ... } else { cp.conn = ... }
FConnect(g) ==
    /\ pc[g] = "f2"
    /\ loc[g].f = "connect"
    /\ \/ mem' = [mem EXCEPT !.err = "connection failed"]
       \/ mem' = [mem EXCEPT !.conn = "connected"]
    /\ Goto(g, "store")
    /\ UNCHANGED <<loc, mutex, wg, rw, once, cfg>>

OnceSteps(g) ==
    \/ OnceCall(g)
    \/ OnceDo(g)
    \/ OnceSlowLock(g)
    \/ OnceSlowCheck(g)
    \/ OnceStore(g)
    \/ OnceSlowUnlock(g)
    \/ OnceReturn(g)

\* basicOnce, onceCalls, multipleOnce
NextOnceCount ==
    \E g \in OnceCallers :
        OnceSteps(g) \/ FCountRead(g) \/ FCountWrite(g) \/ FSleep(g) \/ FAssign(g)

InitOnceCount == InitOnce({CounterCalls, ServiceCalls})
SpecOnceCount == InitOnceCount /\ [][NextOnceCount]_vars

\* lazyInitialization, singletonPattern
NextOnceLazy ==
    \E g \in OnceCallers : OnceSteps(g) \/ FSleep(g) \/ FAssign(g)

InitOnceLazy == InitOnce({LazyCalls})
SpecOnceLazy == InitOnceLazy /\ [][NextOnceLazy]_vars

\* errorHandling
NextOncePool ==
    \E g \in OnceCallers : OnceSteps(g) \/ FSleep(g) \/ FConnect(g)

InitOncePool == InitOnce({PoolCalls})
SpecOncePool == InitOncePool /\ [][NextOncePool]_vars

AllReturned == \A g \in 1..cfg.n : pc[g] = "done"

\* The change an executed action makes to count.
Effect(f) == CASE f = "increment" -> 1 [] f = "decrement" -> -1 [] OTHER -> 0

\* C5: of the actions passed to Do on one Once by concurrent callers, at
\* most one body is ever executed, and once every caller has returned
\* exactly one was, once: count is 1 when that action was increment.
C5_ExactlyOnce ==
    /\ \A o \in Onces : Len(mem.ran[o]) <= 1
    /\ AllReturned =>
          /\ \A o \in Onces : mem.called[o] => Len(mem.ran[o]) = 1
          /\ mem.count = IF mem.ran["once"] = <<>> THEN 0
                         ELSE Effect(mem.ran["once"][1])
          /\ mem.ran["once"] = <<"increment">> => mem.count = 1

\* Every caller called Do on the same Once, some with increment and some
\* with decrement, and all have returned.
C5_Witness ==
    /\ AllReturned
    /\ cfg.n = MaxCallers
    /\ \E g, h \in 1..cfg.n : loc[g].first = "increment" /\ loc[h].first = "decrement"
    /\ mem.count = 1

\* The goroutine is executing the body of the action it passed to Do.
InBody(g) == pc[g] \in {"f1", "f2", "store"}

\* C6: a Do that starts after a Do on the same Once has returned does not
\* run its action, whatever the action is; in onceCalls (one goroutine,
\* Do(increment) then Do(decrement)) count is 1 at the end.
C6_LaterDoIgnored ==
    /\ \A g \in 1..cfg.n : InBody(g) => ~loc[g].late
    /\ (/\ cfg.n = 1
        /\ pc[1] = "done"
        /\ loc[1].first = "increment"
        /\ loc[1].f = "decrement") => mem.count = 1

\* The end of onceCalls.
C6_Witness ==
    /\ cfg.n = 1
    /\ pc[1] = "done"
    /\ loc[1].first = "increment"
    /\ loc[1].f = "decrement"
    /\ loc[1].late
    /\ mem.ran["once"] = <<"increment">>
    /\ mem.count = 1

\* C7: every call of Config.Load and of GetInstance that has returned from
\* Do, also one that raced with the initialising call, finds the value
\* initialised, and all callers are returned the same map or instance (the
\* one the first execution made).
C7_ReturnsInitialised ==
    \A g \in 1..cfg.n :
        /\ pc[g] = "ret" => Result(loc[g].f) = 1
        /\ \A i \in 1..Len(loc[g].rets) : loc[g].rets[i] = 1

\* Two callers that both started before any Do had returned (they raced)
\* have been returned the same initialised value.
C7_Witness ==
    \E g, h \in 1..cfg.n :
        /\ g # h
        /\ loc[g].rets # <<>>
        /\ loc[h].rets # <<>>
        /\ loc[g].f = loc[h].f
        /\ loc[g].calls = 1
        /\ loc[h].calls = 1
        /\ loc[g].rets[1] = loc[h].rets[1]
        /\ loc[g].rets[1] = 1
        /\ ~loc[g].late
        /\ ~loc[h].late

\* C8: the action of Connect runs at most once; every Connect that has
\* returned returned the outcome that run recorded: the same error for all
\* when it failed, nil for all when it succeeded.
C8_OutcomeRecorded ==
    /\ Len(mem.ran["cp.once"]) <= 1
    /\ \A g \in 1..cfg.n : \A i \in 1..Len(loc[g].rets) :
          /\ loc[g].rets[i] = mem.err
          /\ loc[g].rets[i] = "nil" <=> mem.conn = "connected"
          /\ loc[g].rets[i] = "connection failed" <=> mem.conn = ""

\* The first run failed and a later Connect, started after the first had
\* returned, returned the same error.
C8_Witness ==
    \E g \in 1..cfg.n :
        /\ Len(loc[g].rets) = 2
        /\ loc[g].rets[2] = "connection failed"
        /\ loc[g].late
        /\ \E h \in 1..cfg.n : h # g /\ loc[h].rets # <<>> /\ loc[h].rets[1] = "connection failed"

(***************************************************************************)
(* The WaitGroup examples.  Main starts cfg.n goroutines, either with one  *)
(* Add(n) before the loop (waitGroupWithLoops) or with an Add(1) before    *)
(* each go statement (basicWaitGroup, correctAddPlacement, Service.Start), *)
(* and then waits (wg.Wait(), Service.Stop).  Service.Stop is a method:    *)
(* up to MaxWaiters further goroutines call it once Start has returned.    *)
(***************************************************************************)
Stoppers == (MaxN + 1)..(MaxN + MaxWaiters)
Waiters == {Main} \cup Stoppers
WGGoroutines == {Main} \cup Workers \cup Stoppers

InitWG ==
    /\ cfg \in [n : 1..MaxN, bulk : BOOLEAN]
    /\ pc = [g \in WGGoroutines |->
                IF g = Main THEN "add" ELSE IF g \in Stoppers THEN "stop" ELSE "idle"]
    /\ loc = [g \in WGGoroutines |-> [i |-> 0]]
    /\ mem = [counter |-> 0]
    /\ mutex = NoMutex
    /\ wg = ZeroWaitGroup
    /\ rw = ZeroRWMutex
    /\ once = NoOnce

WGAddForgotten ==
    /\ pc[Main] = "add"
    /\ IF loc[Main].i < cfg.n
       THEN UNCHANGED wg /\ Goto(Main, "go")
       ELSE UNCHANGED wg /\ Goto(Main, "wait")
    /\ UNCHANGED <<loc, mem, mutex, rw, once, cfg>>

\* wg.Add(numGreeters) before the loop, or wg.Add(1) in each iteration
WGAdd ==
    /\ pc[Main] = "add"
    /\ IF loc[Main].i < cfg.n
       THEN /\ WgAdd(IF cfg.bulk THEN cfg.n ELSE 1)
            /\ Goto(Main, "go")
       ELSE /\ UNCHANGED wg
            /\ Goto(Main, "wait")
    /\ UNCHANGED <<loc, mem, mutex, rw, once, cfg>>

\* go hello(&wg, i+1) / go func(id int) {...}(i) / go s.worker(i)
WGGo ==
    /\ pc[Main] = "go"
    /\ loc' = [loc EXCEPT ![Main].i = @ + 1]
    /\ pc' = [pc EXCEPT ![loc[Main].i + 1] = "body",
                        ![Main] = IF cfg.bulk /\ loc[Main].i + 1 < cfg.n
                                  THEN "go" ELSE "add"]
    /\ UNCHANGED <<mem, mutex, wg, rw, once, cfg>>

\* the goroutine's work (fmt.Printf, time.Sleep)
WGBody(g) ==
    /\ pc[g] = "body"
    /\ Goto(g, "wgdone")
    /\ UNCHANGED <<loc, mem, mutex, wg, rw, once, cfg>>

\* defer wg.Done()
WGDone(g) ==
    /\ pc[g] = "wgdone"
    /\ WgDone
    /\ Goto(g, "done")
    /\ UNCHANGED <<loc, mem, mutex, rw, once, cfg>>

\* Service.Stop called by another goroutine after Start has returned
WGStop(g) ==
    /\ pc[g] = "stop"
    /\ pc[Main] \in {"wait", "sem", "done"}
    /\ Goto(g, "wait")
    /\ UNCHANGED <<loc, mem, mutex, wg, rw, once, cfg>>

\* wg.Wait()
WGWait(g) ==
    /\ pc[g] = "wait"
    /\ WgWaitEnter(g, "sem", "done")
    /\ UNCHANGED <<loc, mem, mutex, rw, once, cfg>>

WGWaitWake(g) ==
    /\ pc[g] = "sem"
    /\ WgWaitWake(g, "done")
    /\ UNCHANGED <<loc, mem, mutex, rw, once, cfg>>

WGStep(g) ==
    \/ g = Main /\ WGAdd
    \/ g = Main /\ WGGo
    \/ g \in Workers /\ WGBody(g)
    \/ g \in Workers /\ WGDone(g)
    \/ g \in Stoppers /\ WGStop(g)
    \/ g \in Waiters /\ WGWait(g)
    \/ g \in Waiters /\ WGWaitWake(g)

NextWG == \E g \in WGGoroutines : WGStep(g)

SpecWG == InitWG /\ [][NextWG]_vars

\* Every goroutine that can run is eventually run.
FairSpecWG == SpecWG /\ \A g \in WGGoroutines : WF_vars(WGStep(g))

\* The n Done() calls that answer Add(n) have all happened.
AllDoneCalled == \A g \in 1..cfg.n : pc[g] = "done"

\* The goroutines blocked in Wait().
Blocked == {g \in Waiters : pc[g] = "sem"}

\* C9: once the n Done() calls that answer Add(n) have happened, all the
\* goroutines blocked in Wait() have been released together (one wake-up
\* each), and every one of them eventually returns from Wait().
C9_AllWaitersReleased ==
    /\ [](AllDoneCalled => wg.sema = Cardinality(Blocked))
    /\ \A g \in Waiters : (AllDoneCalled /\ pc[g] = "sem") ~> (pc[g] = "done")

\* The last Done() has just released every waiter: all of them are still
\* in Wait(), none has returned yet.
C9_Witness ==
    /\ AllDoneCalled
    /\ cfg.n = MaxN
    /\ Blocked = Waiters
    /\ wg.sema = Cardinality(Waiters)

\* C10: when every Add precedes the launch of the goroutine it counts, a
\* Wait() that has returned found the counter at zero: every counted
\* goroutine has executed its Done().
C10_WaitReturnsAfterAllDone ==
    \A g \in Waiters : pc[g] = "done" => (wg.v = 0 /\ AllDoneCalled)

\* Main's Wait() has returned after the last Done(); a waiter that was
\* released together with it is still inside Wait().
C10_Witness ==
    /\ pc[Main] = "done"
    /\ cfg.n = MaxN
    /\ ~cfg.bulk
    /\ wg.w = 0
    /\ \E g \in Stoppers : pc[g] = "sem"


(***************************************************************************)
(* The WaitGroup examples with a surplus decrement.  "Done(): Decrement    *)
(* counter by 1": a goroutine whose deferred Done() has run decrements the *)
(* counter once more, by Done() or by Add(-d).  An Add that takes the      *)
(* counter below zero panics, and the panic ends the program.              *)
(***************************************************************************)
RECURSIVE SumOver(_, _)
SumOver(f, S) ==
    IF S = {} THEN 0
    ELSE LET x == CHOOSE y \in S : TRUE IN f[x] + SumOver(f, S \ {x})

\* a further Done() (d = 1) or Add(-d) by a goroutine that has finished
WGSurplus(g) ==
    /\ pc[g] = "done"
    /\ \E d \in 1..MaxLoops :
          /\ WgAdd(-d)
          /\ loc' = [loc EXCEPT ![g].i = d]
    /\ Goto(g, "surplus")
    /\ UNCHANGED <<mem, mutex, rw, once, cfg>>

\* a panic that nothing recovers ends every goroutine
NextWGSurplus ==
    /\ wg.panic = "none"
    /\ \/ NextWG
       \/ \E g \in Workers : WGSurplus(g)

SpecWGSurplus == InitWG /\ [][NextWGSurplus]_vars

\* what the Add calls executed so far have added
Added ==
    IF cfg.bulk
    THEN IF pc[Main] = "add" /\ loc[Main].i = 0 THEN 0 ELSE cfg.n
    ELSE loc[Main].i + (IF pc[Main] = "go" THEN 1 ELSE 0)

\* what the Done() and Add(-d) calls executed so far have taken off
Removed ==
    SumOver([g \in Workers |->
                IF pc[g] = "done" THEN 1
                ELSE IF pc[g] = "surplus" THEN 1 + loc[g].i ELSE 0], Workers)

\* C11: in every state that is not a usage-error state the WaitGroup
\* counter is what the Add and Done calls so far leave and is >= 0; a
\* decrement that takes it below zero (Removed > Added) is a usage-error
\* state ("negative counter").
C11_CounterNeverNegative ==
    /\ wg.panic = "none" => (wg.v >= 0 /\ wg.v = Added - Removed)
    /\ Removed > Added => wg.panic = "negative counter"

\* Add(MaxN) was answered by MaxN Done() calls and one Done() more: the
\* surplus Done() found the counter at zero and ended in the usage error.
C11_Witness ==
    /\ cfg.n = MaxN
    /\ cfg.bulk
    /\ wg.panic = "negative counter"
    /\ Removed = MaxN + 1
    /\ \E g \in Workers : pc[g] = "surplus" /\ loc[g].i = 1


(***************************************************************************)
(* sync.Pool.  Put stores the object in the private slot when that is      *)
(* free and otherwise at the head of the shared list; Get takes the        *)
(* private slot, else the head of the shared list, else calls New.  The    *)
(* garbage collector may clear the pool at any time.  Objects are numbered *)
(* in the order New constructs them (0 is nil); mem.heap[o] is the         *)
(* content of object o.                                                    *)
(***************************************************************************)
FreeList(p) == (IF p.private = 0 THEN <<>> ELSE <<p.private>>) \o p.shared

\* New: func() interface{} { ...; return new(bytes.Buffer) }
PoolNew(p) ==
    [p EXCEPT !.created = @ + 1, !.heap = Append(@, "")]

\* a Get that returns nil when the pool is empty instead of calling New
PoolAfterGetNoNew(p) ==
    IF p.private # 0 THEN [p EXCEPT !.private = 0]
    ELSE IF p.shared # <<>> THEN [p EXCEPT !.shared = Tail(@)]
    ELSE p

\* the state after Get and the object Get returns
PoolAfterGet(p) ==
    IF p.private # 0 THEN [p EXCEPT !.private = 0]
    ELSE IF p.shared # <<>> THEN [p EXCEPT !.shared = Tail(@)]
    ELSE PoolNew(p)

PoolGot(p) ==
    IF p.private # 0 THEN p.private
    ELSE IF p.shared # <<>> THEN Head(p.shared)
    ELSE p.created + 1

\* a Put that drops the object
PoolAfterPutDropped(p, x) == p

PoolAfterPut(p, x) ==
    IF x = 0 THEN p
    ELSE IF p.private = 0 THEN [p EXCEPT !.private = x]
    ELSE [p EXCEPT !.shared = <<x>> \o @]

\* "Objects can be evicted at any time (GC can clear the pool)"
PoolAfterEvict(p) == [p EXCEPT !.private = 0, !.shared = <<>>]


ZeroPool == [private |-> 0, shared |-> <<>>, created |-> 0, heap |-> <<>>]

(***************************************************************************)
(* The sync.Pool examples.  Each is the sequence of pool operations its    *)
(* goroutine performs; a Put always returns the object of the latest Get.  *)
(* cfg.k is the number of loop iterations (5 in cacheWarming), cfg.n the   *)
(* number of goroutines bufferPoolExample starts.                          *)
(***************************************************************************)
RECURSIVE Repeat(_, _)
Repeat(ops, k) == IF k = 0 THEN <<>> ELSE ops \o Repeat(ops, k - 1)

PoolPrograms ==
    {"basicPool", "cacheWarming1", "cacheWarming2", "commonPitfalls",
     "poolBestPractices", "bufferPoolExample"}

MainProgram(c) ==
    CASE c.prog = "basicPool" -> <<"get", "get", "put", "get">>
      [] c.prog = "cacheWarming1" -> Repeat(<<"get", "put">>, c.k)
      [] c.prog = "cacheWarming2" ->
            Repeat(<<"warm">>, c.k) \o Repeat(<<"get", "put">>, c.k)
      [] c.prog = "commonPitfalls" -> <<"get", "write", "put", "get">>
      [] c.prog = "poolBestPractices" ->
            <<"get", "write", "reset", "put", "get", "reset", "put">>
      [] c.prog = "bufferPoolExample" ->
            Repeat(<<"add", "go">>, c.n) \o <<"wait">>

\* go func(id int) { defer wg.Done(); buf := pool.Get(); defer pool.Put(buf);
\*                   fmt.Fprintf(buf, ...) }: BufferPool.Put resets the buffer
WorkerProgram == <<"get", "write", "reset", "put", "wgdone">>

Program(g) == IF g = Main THEN MainProgram(cfg) ELSE WorkerProgram

\* what a goroutine writes into its buffer
Written == IF cfg.prog = "commonPitfalls" THEN "secret data" ELSE "data"

InitPool ==
    /\ cfg \in {c \in [prog : PoolPrograms, k : 1..MaxLoops, n : 1..MaxN] :
                  /\ c.prog \notin {"cacheWarming1", "cacheWarming2"} => c.k = 1
                  /\ c.prog # "bufferPoolExample" => c.n = 1}
    /\ pc = [g \in Goroutines |-> IF g = Main THEN Head(MainProgram(cfg)) ELSE "idle"]
    /\ loc = [g \in Goroutines |->
                [ip |-> 1, obj |-> 0, put |-> 0, expect |-> 0,
                 wasEmpty |-> FALSE, fresh |-> FALSE]]
    /\ mem = [pool |-> ZeroPool]
    /\ mutex = NoMutex
    /\ wg = ZeroWaitGroup
    /\ rw = ZeroRWMutex
    /\ once = NoOnce

\* the goroutine moves on to its next operation
PoolAdvance(g, l) ==
    /\ pc' = [pc EXCEPT ![g] = IF l.ip < Len(Program(g))
                                THEN Program(g)[l.ip + 1] ELSE "done"]
    /\ loc' = [h \in Goroutines |->
                 IF h = g THEN [l EXCEPT !.ip = @ + 1]
                 ELSE IF pc[g] \in {"get", "put", "warm"}
                      THEN [loc[h] EXCEPT !.put = 0] ELSE loc[h]]

\* obj := pool.Get()
PoolGet(g) ==
    /\ pc[g] = "get"
    /\ mem' = [mem EXCEPT !.pool = PoolAfterGet(@)]
    /\ PoolAdvance(g, [loc[g] EXCEPT !.obj = PoolGot(mem.pool),
                                     !.expect = loc[g].put,
                                     !.put = 0,
                                     !.wasEmpty = FreeList(mem.pool) = <<>>,
                                     !.fresh = mem'.pool.created # mem.pool.created])
    /\ UNCHANGED <<mutex, wg, rw, once, cfg>>

\* a Put that clears the object it takes back
PoolPutReset(g) ==
    /\ pc[g] = "put"
    /\ mem' = [mem EXCEPT !.pool = [PoolAfterPut(@, loc[g].obj) EXCEPT
                                       !.heap[loc[g].obj] = ""]]
    /\ PoolAdvance(g, [loc[g] EXCEPT !.put = loc[g].obj])
    /\ UNCHANGED <<mutex, wg, rw, once, cfg>>

\* pool.Put(obj)
PoolPut(g) ==
    /\ pc[g] = "put"
    /\ mem' = [mem EXCEPT !.pool = PoolAfterPut(@, loc[g].obj)]
    /\ PoolAdvance(g, [loc[g] EXCEPT !.put = loc[g].obj])
    /\ UNCHANGED <<mutex, wg, rw, once, cfg>>

\* pool2.Put(expensiveNew())
PoolWarm(g) ==
    /\ pc[g] = "warm"
    /\ mem' = [mem EXCEPT !.pool = PoolAfterPut(PoolNew(@), mem.pool.created + 1)]
    /\ PoolAdvance(g, loc[g])
    /\ UNCHANGED <<mutex, wg, rw, once, cfg>>

\* buf.WriteString("secret data") / fmt.Fprintf(buf, ...)
PoolWrite(g) ==
    /\ pc[g] = "write"
    /\ mem' = [mem EXCEPT !.pool.heap[loc[g].obj] = Written]
    /\ PoolAdvance(g, loc[g])
    /\ UNCHANGED <<mutex, wg, rw, once, cfg>>

\* buf.Reset()
PoolReset(g) ==
    /\ pc[g] = "reset"
    /\ mem' = [mem EXCEPT !.pool.heap[loc[g].obj] = ""]
    /\ PoolAdvance(g, loc[g])
    /\ UNCHANGED <<mutex, wg, rw, once, cfg>>

\* the garbage collector clears the pool
PoolEvict ==
    /\ FreeList(mem.pool) # <<>>
    /\ mem' = [mem EXCEPT !.pool = PoolAfterEvict(@)]
    /\ loc' = [h \in Goroutines |-> [loc[h] EXCEPT !.put = 0]]
    /\ UNCHANGED <<pc, mutex, wg, rw, once, cfg>>


\* wg.Add(1)
PoolWgAdd ==
    /\ pc[Main] = "add"
    /\ WgAdd(1)
    /\ PoolAdvance(Main, loc[Main])
    /\ UNCHANGED <<mem, mutex, rw, once, cfg>>

\* go func(id int) {...}(i): the i-th "go" is operation 2 * i of main
PoolGo ==
    /\ pc[Main] = "go"
    /\ pc' = [pc EXCEPT ![Main] = Program(Main)[loc[Main].ip + 1],
                        ![loc[Main].ip \div 2] = Head(WorkerProgram)]
    /\ loc' = [loc EXCEPT ![Main].ip = @ + 1]
    /\ UNCHANGED <<mem, mutex, wg, rw, once, cfg>>

\* defer wg.Done()
PoolWgDone(g) ==
    /\ pc[g] = "wgdone"
    /\ WgDone
    /\ PoolAdvance(g, loc[g])
    /\ UNCHANGED <<mem, mutex, rw, once, cfg>>

\* wg.Wait()
PoolWgWait ==
    /\ pc[Main] = "wait"
    /\ WgWaitEnter(Main, "sem", "done")
    /\ UNCHANGED <<loc, mem, mutex, rw, once, cfg>>

PoolWgWaitWake ==
    /\ pc[Main] = "sem"
    /\ WgWaitWake(Main, "done")
    /\ UNCHANGED <<loc, mem, mutex, rw, once, cfg>>

NextPool ==
    \/ \E g \in Goroutines :
          \/ PoolGet(g)
          \/ PoolPut(g)
          \/ PoolWarm(g)
          \/ PoolWrite(g)
          \/ PoolReset(g)
          \/ PoolWgDone(g)
    \/ PoolWgAdd
    \/ PoolGo
    \/ PoolWgWait
    \/ PoolWgWaitWake
    \/ PoolEvict

SpecPool == InitPool /\ [][NextPool]_vars

C13_EmptyGetConstructs ==
    /\ [](\A g \in Goroutines : pc[g] = "get" => ENABLED PoolGet(g))
    /\ [][\A g \in Goroutines :
            (pc[g] = "get" /\ loc'[g].ip # loc[g].ip /\ FreeList(mem.pool) = <<>>)
               => /\ mem'.pool.created = mem.pool.created + 1
                  /\ loc'[g].obj = mem'.pool.created
                  /\ loc'[g].fresh
                  /\ mem'.pool.heap[loc'[g].obj] = ""]_vars

\* basicPool's third Get ran after the collector had discarded the instance
\* Put before it: it found the free list empty and constructed a third object.
C13_Witness ==
    /\ cfg.prog = "basicPool"
    /\ pc[Main] = "done"
    /\ loc[Main].wasEmpty
    /\ loc[Main].fresh
    /\ loc[Main].expect = 0
    /\ loc[Main].obj = 3
    /\ mem.pool.created = 3

ZeroCond == [wait |-> 0, notify |-> 0, list |-> {}]

\* the goroutines a notification that moves c.notify to n makes runnable
CondReadied(c, n) == {g \in c.list : loc[g].t < n}

\* a Signal that notifies every ticket
CondAfterSignalAll(c) ==
    [c EXCEPT !.notify = c.wait, !.list = {}]

\* Signal: "Wakes up ONE goroutine (FIFO order)"
CondAfterSignal(c) ==
    IF c.wait = c.notify THEN c
    ELSE [c EXCEPT !.notify = @ + 1, !.list = @ \ CondReadied(c, c.notify + 1)]

\* a Broadcast that wakes one goroutine only
CondAfterBroadcastOne(c) ==
    IF c.wait = c.notify THEN c
    ELSE [c EXCEPT !.notify = @ + 1, !.list = @ \ CondReadied(c, c.notify + 1)]

\* Broadcast: "Wakes up ALL waiting goroutines"
CondAfterBroadcast(c) ==
    [c EXCEPT !.notify = c.wait, !.list = {}]

\* the program counters after a notification by goroutine g, which moves on to l
CondWake(g, l, c) ==
    pc' = [h \in DOMAIN pc |->
             IF h = g THEN l
             ELSE IF h \in c.list \ mem'.c.list THEN "relock" ELSE pc[h]]

\* c.Wait(), first step: the caller's ticket is c.wait, which goes up by one
CondAfterWaitAdd(c) == [c EXCEPT !.wait = @ + 1]

\* a Wait that parks without looking at its ticket
CondWaitParkNoCheck(g, parked, woken) ==
    /\ mem' = [mem EXCEPT !.c.list = @ \cup {g}]
    /\ Goto(g, parked)

\* c.Wait(), third step: "Suspends the goroutine", unless the ticket has
\* been notified since it was taken
CondWaitPark(g, parked, woken) ==
    IF loc[g].t < mem.c.notify
    THEN /\ Goto(g, woken)
         /\ UNCHANGED mem
    ELSE /\ mem' = [mem EXCEPT !.c.list = @ \cup {g}]
         /\ Goto(g, parked)

(***************************************************************************)
(* basicCond and signalVsBroadcast.  cfg.n goroutines (at most MaxCallers) *)
(* wait on c: with                                                         *)
(* cfg.loop as in basicCond (for !condition { c.Wait() }), without it as   *)
(* in signalVsBroadcast (one c.Wait(), counted by a WaitGroup).  Main      *)
(* then notifies up to MaxCalls times, each time either as basicCond does  *)
(* (Lock; condition = true; Signal; Unlock) or as signalVsBroadcast does   *)
(* (Broadcast).  time.Sleep orders nothing.  mem.calls counts the          *)
(* notifications; loc[g].at is its value when g took its ticket.           *)
(***************************************************************************)
InitCond ==
    /\ cfg \in [n : 1..MaxCallers, loop : BOOLEAN]
    /\ pc = [g \in Goroutines |->
                IF g = Main THEN (IF cfg.loop THEN "go" ELSE "add") ELSE "idle"]
    /\ loc = [g \in Goroutines |-> [i |-> 0, t |-> 0, at |-> 0]]
    /\ mem = [condition |-> FALSE, c |-> ZeroCond, calls |-> 0]
    /\ mutex = NoMutex
    /\ wg = ZeroWaitGroup
    /\ rw = ZeroRWMutex
    /\ once = NoOnce

\* wg.Add(1)
CondAdd ==
    /\ pc[Main] = "add"
    /\ WgAdd(1)
    /\ Goto(Main, "go")
    /\ UNCHANGED <<loc, mem, mutex, rw, once, cfg>>

\* go func() {...}() / go func(id int) {...}(i)
CondGo ==
    /\ pc[Main] = "go"
    /\ loc' = [loc EXCEPT ![Main].i = @ + 1]
    /\ pc' = [pc EXCEPT ![loc[Main].i + 1] = "lock",
                        ![Main] = IF loc[Main].i + 1 < cfg.n
                                  THEN (IF cfg.loop THEN "go" ELSE "add")
                                  ELSE "notify"]
    /\ UNCHANGED <<mem, mutex, wg, rw, once, cfg>>

\* c.L.Lock()
CondLock(g) ==
    /\ pc[g] = "lock"
    /\ MutexLock("c.L")
    /\ Goto(g, IF cfg.loop THEN "check" ELSE "wait")
    /\ UNCHANGED <<loc, mem, wg, rw, once, cfg>>

\* a goroutine that looks at condition only after a first Wait
CondCheckAfterWait(g) ==
    /\ pc[g] = "check"
    /\ Goto(g, IF mem.condition /\ loc[g].t < mem.c.wait THEN "unlock" ELSE "wait")
    /\ UNCHANGED <<loc, mem, mutex, wg, rw, once, cfg>>

\* for !condition {
CondCheck(g) ==
    /\ pc[g] = "check"
    /\ Goto(g, IF mem.condition THEN "unlock" ELSE "wait")
    /\ UNCHANGED <<loc, mem, mutex, wg, rw, once, cfg>>

\* c.Wait(): take the ticket
CondWaitAdd(g) ==
    /\ pc[g] = "wait"
    /\ mem' = [mem EXCEPT !.c = CondAfterWaitAdd(@)]
    /\ loc' = [loc EXCEPT ![g].t = mem.c.wait, ![g].at = mem.calls]
    /\ Goto(g, "wunlock")
    /\ UNCHANGED <<mutex, wg, rw, once, cfg>>

\* a Wait that keeps c.L while it is suspended
CondWaitUnlockKept(g) ==
    /\ pc[g] = "wunlock"
    /\ Goto(g, "park")
    /\ UNCHANGED <<loc, mem, mutex, wg, rw, once, cfg>>

\* c.Wait(): "Automatically calls c.L.Unlock()"
CondWaitUnlock(g) ==
    /\ pc[g] = "wunlock"
    /\ MutexUnlock("c.L")
    /\ Goto(g, "park")
    /\ UNCHANGED <<loc, mem, wg, rw, once, cfg>>

\* c.Wait(): "Suspends the goroutine"
CondPark(g) ==
    /\ pc[g] = "park"
    /\ CondWaitPark(g, "parked", "relock")
    /\ UNCHANGED <<loc, mutex, wg, rw, once, cfg>>

\* c.Wait(): "Automatically calls c.L.Lock()" and returns
CondWaitRelock(g) ==
    /\ pc[g] = "relock"
    /\ MutexLock("c.L")
    /\ Goto(g, IF cfg.loop THEN "check" ELSE "unlock")
    /\ UNCHANGED <<loc, mem, wg, rw, once, cfg>>

\* c.L.Unlock()
CondUnlock(g) ==
    /\ pc[g] = "unlock"
    /\ MutexUnlock("c.L")
    /\ Goto(g, IF cfg.loop THEN "done" ELSE "wgdone")
    /\ UNCHANGED <<loc, mem, wg, rw, once, cfg>>

\* defer wg.Done()
CondDone(g) ==
    /\ pc[g] = "wgdone"
    /\ WgDone
    /\ Goto(g, "done")
    /\ UNCHANGED <<loc, mem, mutex, rw, once, cfg>>



\* main: c.L.Lock()
CondMainLock ==
    /\ pc[Main] = "notify"
    /\ mem.calls < MaxCalls
    /\ MutexLock("c.L")
    /\ Goto(Main, "set")
    /\ UNCHANGED <<loc, mem, wg, rw, once, cfg>>

\* condition = true
CondSet ==
    /\ pc[Main] = "set"
    /\ mem' = [mem EXCEPT !.condition = TRUE]
    /\ Goto(Main, "signal")
    /\ UNCHANGED <<loc, mutex, wg, rw, once, cfg>>

\* c.Signal()
CondSignal ==
    /\ pc[Main] = "signal"
    /\ mem' = [mem EXCEPT !.c = CondAfterSignal(@), !.calls = @ + 1]
    /\ CondWake(Main, "munlock", mem.c)
    /\ UNCHANGED <<loc, mutex, wg, rw, once, cfg>>

\* main: c.L.Unlock()
CondMainUnlock ==
    /\ pc[Main] = "munlock"
    /\ MutexUnlock("c.L")
    /\ Goto(Main, "notify")
    /\ UNCHANGED <<loc, mem, wg, rw, once, cfg>>

\* c.Broadcast()
CondBroadcast ==
    /\ pc[Main] = "notify"
    /\ mem.calls < MaxCalls
    /\ mem' = [mem EXCEPT !.c = CondAfterBroadcast(@), !.calls = @ + 1]
    /\ CondWake(Main, "notify", mem.c)
    /\ UNCHANGED <<loc, mutex, wg, rw, once, cfg>>

\* main has notified for the last time: wg.Wait(), or the end of basicCond
CondMainWait ==
    /\ pc[Main] = "notify"
    /\ mem.calls > 0
    /\ IF cfg.loop
       THEN Goto(Main, "done") /\ UNCHANGED wg
       ELSE WgWaitEnter(Main, "sem", "done")
    /\ UNCHANGED <<loc, mem, mutex, rw, once, cfg>>

CondMainWaitWake ==
    /\ pc[Main] = "sem"
    /\ WgWaitWake(Main, "done")
    /\ UNCHANGED <<loc, mem, mutex, rw, once, cfg>>

NextCond ==
    \/ CondAdd
    \/ CondGo
    \/ CondMainLock
    \/ CondSet
    \/ CondSignal
    \/ CondMainUnlock
    \/ CondBroadcast
    \/ CondMainWait
    \/ CondMainWaitWake
    \/ \E g \in Workers :
          \/ CondLock(g)
          \/ CondCheck(g)
          \/ CondWaitAdd(g)
          \/ CondWaitUnlock(g)
          \/ CondPark(g)
          \/ CondWaitRelock(g)
          \/ CondUnlock(g)
          \/ CondDone(g)

SpecCond == InitCond /\ [][NextCond]_vars

\* the goroutines that hold c.L according to their position in the code
HoldsCL(g) ==
    IF g = Main THEN pc[g] \in {"set", "signal", "munlock"}
    ELSE pc[g] \in {"check", "wait", "wunlock", "unlock"}

\* between the release of c.L inside Wait and its re-acquisition
InWaitUnlocked(g) == g # Main /\ pc[g] \in {"park", "parked", "relock"}

\* the wait queue: the goroutines in Wait whose ticket has not been notified
WaitQueue ==
    {g \in Workers : pc[g] \in {"wunlock", "park", "parked"}
                       /\ loc[g].t >= mem.c.notify}

\* C15: a goroutine suspended in Wait does not hold c.L (c.L is held exactly
\* when some goroutine is between a Lock and its Unlock outside a
\* suspension, so another goroutine can take it meanwhile), and Wait
\* returns only by acquiring c.L: at most one goroutine is past a Lock or
\* a returned Wait at any time.
C15_WaitReleasesAndReacquires ==
    /\ mutex["c.L"] = (\E g \in Goroutines : HoldsCL(g))
    /\ Cardinality({g \in Goroutines : HoldsCL(g)}) <= 1
    /\ \A g \in Workers : InWaitUnlocked(g) => ~HoldsCL(g)

\* Main holds c.L and is about to Signal while one goroutine is suspended
\* in Wait and another has been woken and has not yet re-acquired c.L.
C15_Witness ==
    /\ pc[Main] = "signal"
    /\ mutex["c.L"]
    /\ \E g \in Workers : pc[g] = "parked"
    /\ \E g \in Workers : pc[g] = "relock"


\* C16: a Signal takes at most one goroutine out of the wait queue; a
\* Broadcast takes out every goroutine that is in it at that moment; and a
\* goroutine is woken only by a notification issued after it called Wait
\* (mem.calls > loc[g].at), never by an earlier Broadcast.
C16_SignalOneBroadcastAll ==
    /\ [][(pc[Main] = "signal" /\ pc'[Main] # "signal")
            => /\ WaitQueue' \subseteq WaitQueue
               /\ Cardinality(WaitQueue \ WaitQueue') <= 1]_vars
    /\ [][(pc[Main] = "notify" /\ mem'.calls # mem.calls)
            => /\ WaitQueue' = {}
               /\ \A g \in WaitQueue : pc[g] = "parked" => pc'[g] = "relock"]_vars
    /\ [](\A g \in Workers : pc[g] = "relock" => mem.calls > loc[g].at)

\* Main has issued its first notification, a Signal, with two goroutines in
\* the wait queue: one of them was woken, the other is still suspended.
C16_Witness ==
    /\ pc[Main] = "munlock"
    /\ mem.calls = 1
    /\ \E g \in Workers : pc[g] = "relock"
    /\ \E g \in Workers : pc[g] = "parked" /\ g \in WaitQueue /\ loc[g].at = 0

\* C17: no goroutine is left suspended with a notified ticket: a goroutine
\* that has released c.L inside Wait is in the wait queue from that moment
\* on, so a Signal or Broadcast issued before it suspends is not lost.
C17_NoLostWakeup ==
    /\ \A g \in Workers : pc[g] = "parked" => g \in WaitQueue
    /\ \A g \in Workers :
          (pc[g] = "park" /\ loc[g].t < mem.c.notify) => mem.calls > loc[g].at

\* Main took c.L after a goroutine's Wait had released it and has called
\* Signal before that goroutine suspended: the goroutine's ticket is
\* notified and it will not park.
C17_Witness ==
    /\ pc[Main] = "munlock"
    /\ mem.calls = 1
    /\ \E g \in Workers : pc[g] = "park" /\ loc[g].t < mem.c.notify


(***************************************************************************)
(* runDeadlock: main does wg.Add(2), starts printSum(&a, &b) (goroutine 1) *)
(* and printSum(&b, &a) (goroutine 2) and waits.  printSum locks v1.mu,    *)
(* sleeps, locks v2.mu, prints the sum and runs its deferred calls in      *)
(* reverse order: v2.mu.Unlock(), v1.mu.Unlock(), wg.Done().               *)
(* deadlockExamples (scenario 3) is the same pair on mu1 and mu2 without   *)
(* the WaitGroup: Lock, Sleep, Lock, Unlock of the first, deferred Unlock  *)
(* of the second, while main sleeps and returns.                           *)
(***************************************************************************)
Summers == {1, 2}
V1(g) == IF g = 1 THEN "a.mu" ELSE "b.mu"
V2(g) == IF g = 1 THEN "b.mu" ELSE "a.mu"

InitDeadlock ==
    /\ cfg \in [prog : {"runDeadlock", "deadlockExamples"}]
    /\ pc = [g \in Goroutines |->
                IF g = Main THEN (IF cfg.prog = "runDeadlock" THEN "add" ELSE "go")
                ELSE "idle"]
    /\ loc = [g \in Goroutines |-> [i |-> 0, sum |-> -1]]
    /\ mem = [a |-> 0, b |-> 0]
    /\ mutex = NoMutex
    /\ wg = ZeroWaitGroup
    /\ rw = ZeroRWMutex
    /\ once = NoOnce

\* wg.Add(2)
DLAdd ==
    /\ pc[Main] = "add"
    /\ WgAdd(2)
    /\ Goto(Main, "go")
    /\ UNCHANGED <<loc, mem, mutex, rw, once, cfg>>

\* go printSum(&a, &b); go printSum(&b, &a)
DLGo ==
    /\ pc[Main] = "go"
    /\ loc' = [loc EXCEPT ![Main].i = @ + 1]
    /\ pc' = [pc EXCEPT ![loc[Main].i + 1] = "lock1",
                        ![Main] = IF loc[Main].i + 1 < 2 THEN "go"
                                  ELSE IF cfg.prog = "runDeadlock" THEN "wait"
                                  ELSE "done"]
    /\ UNCHANGED <<mem, mutex, wg, rw, once, cfg>>

\* wg.Wait()
DLWait ==
    /\ pc[Main] = "wait"
    /\ WgWaitEnter(Main, "sem", "done")
    /\ UNCHANGED <<loc, mem, mutex, rw, once, cfg>>

DLWaitWake ==
    /\ pc[Main] = "sem"
    /\ WgWaitWake(Main, "done")
    /\ UNCHANGED <<loc, mem, mutex, rw, once, cfg>>

\* v1.mu.Lock()
DLLock1(g) ==
    /\ pc[g] = "lock1"
    /\ MutexLock(V1(g))
    /\ Goto(g, "sleep")
    /\ UNCHANGED <<loc, mem, wg, rw, once, cfg>>

\* time.Sleep(2 * time.Second)
DLSleep(g) ==
    /\ pc[g] = "sleep"
    /\ Goto(g, "lock2")
    /\ UNCHANGED <<loc, mem, mutex, wg, rw, once, cfg>>

\* a second Lock that does not wait for the holder
DLLock2Unguarded(g) ==
    /\ pc[g] = "lock2"
    /\ mutex' = [mutex EXCEPT ![V2(g)] = TRUE]
    /\ Goto(g, IF cfg.prog = "runDeadlock" THEN "print" ELSE "unlock1")
    /\ UNCHANGED <<loc, mem, wg, rw, once, cfg>>

\* v2.mu.Lock()
DLLock2(g) ==
    /\ pc[g] = "lock2"
    /\ MutexLock(V2(g))
    /\ Goto(g, IF cfg.prog = "runDeadlock" THEN "print" ELSE "unlock1")
    /\ UNCHANGED <<loc, mem, wg, rw, once, cfg>>

\* fmt.Printf("sum=%v\n", v1.v+v2.v)
DLPrint(g) ==
    /\ pc[g] = "print"
    /\ loc' = [loc EXCEPT ![g].sum = mem.a + mem.b]
    /\ Goto(g, "unlock2")
    /\ UNCHANGED <<mem, mutex, wg, rw, once, cfg>>

\* a printSum that returns without unlocking v2.mu
DLUnlock2Kept(g) ==
    /\ pc[g] = "unlock2"
    /\ Goto(g, IF cfg.prog = "runDeadlock" THEN "unlock1" ELSE "done")
    /\ UNCHANGED <<loc, mem, mutex, wg, rw, once, cfg>>

\* defer v2.mu.Unlock()
DLUnlock2(g) ==
    /\ pc[g] = "unlock2"
    /\ MutexUnlock(V2(g))
    /\ Goto(g, IF cfg.prog = "runDeadlock" THEN "unlock1" ELSE "done")
    /\ UNCHANGED <<loc, mem, wg, rw, once, cfg>>

\* defer v1.mu.Unlock() (deadlockExamples: mu1.Unlock())
DLUnlock1(g) ==
    /\ pc[g] = "unlock1"
    /\ MutexUnlock(V1(g))
    /\ Goto(g, IF cfg.prog = "runDeadlock" THEN "wgdone" ELSE "unlock2")
    /\ UNCHANGED <<loc, mem, wg, rw, once, cfg>>

\* defer wg.Done()
DLDone(g) ==
    /\ pc[g] = "wgdone"
    /\ WgDone
    /\ Goto(g, "done")
    /\ UNCHANGED <<loc, mem, mutex, rw, once, cfg>>

DLStep(g) ==
    \/ DLLock1(g)
    \/ DLSleep(g)
    \/ DLLock2(g)
    \/ DLPrint(g)
    \/ DLUnlock2(g)
    \/ DLUnlock1(g)
    \/ DLDone(g)

NextDeadlock ==
    \/ DLAdd
    \/ DLGo
    \/ DLWait
    \/ DLWaitWake
    \/ \E g \in Summers : DLStep(g)

SpecDeadlock == InitDeadlock /\ [][NextDeadlock]_vars

\* each printSum holds its first lock and has not acquired its second
Circular == \A g \in Summers : pc[g] \in {"sleep", "lock2"}

\* C18: once each printSum holds its first lock, that stays so for ever:
\* neither acquires its second lock (its Lock is not enabled), neither has
\* executed or will execute wg.Done() (the counter stays 2) and wg.Wait()
\* does not return.
C18_CircularWaitIsPermanent ==
    /\ [][Circular => Circular']_vars
    /\ [](Circular =>
            /\ \A g \in Summers : pc[g] = "lock2" => ~ENABLED DLStep(g)
            /\ cfg.prog = "runDeadlock" => (wg.v = 2 /\ pc[Main] # "done"))

\* All three goroutines of runDeadlock are blocked: both printSum calls in
\* their second Lock and main in wg.Wait(); no step is possible.
C18_Witness ==
    /\ cfg.prog = "runDeadlock"
    /\ \A g \in Summers : pc[g] = "lock2"
    /\ pc[Main] = "sem"
    /\ ~ENABLED NextDeadlock


(***************************************************************************)
(* mu.Lock() and mu.Unlock() called in any order: every goroutine makes    *)
(* up to MaxCalls calls on the mutex of withMutex, each a Lock or an       *)
(* Unlock, whether or not it holds mu.  mem.locks and mem.unlocks count    *)
(* the calls that returned.  The fatal error ends the program.             *)
(***************************************************************************)
InitUnlock ==
    /\ cfg = [n |-> MaxN]
    /\ pc = [g \in Workers |-> "call"]
    /\ loc = [g \in Workers |-> [ops |-> 0]]
    /\ mem = [locks |-> 0, unlocks |-> 0]
    /\ mutex = NoMutex
    /\ wg = ZeroWaitGroup
    /\ rw = ZeroRWMutex
    /\ once = NoOnce

\* the goroutine's next call
MuCall(g) ==
    /\ ~mutex["fatal"]
    /\ pc[g] = "call"
    /\ loc[g].ops < MaxCalls
    /\ loc' = [loc EXCEPT ![g].ops = @ + 1]
    /\ \E l \in {"lock", "unlock"} : Goto(g, l)
    /\ UNCHANGED <<mem, mutex, wg, rw, once, cfg>>

\* mu.Lock()
MuLock(g) ==
    /\ ~mutex["fatal"]
    /\ pc[g] = "lock"
    /\ MutexLock("mu")
    /\ mem' = [mem EXCEPT !.locks = @ + 1]
    /\ Goto(g, "call")
    /\ UNCHANGED <<loc, wg, rw, once, cfg>>

\* mu.Unlock()
MuUnlock(g) ==
    /\ ~mutex["fatal"]
    /\ pc[g] = "unlock"
    /\ MutexUnlock("mu")
    /\ mem' = [mem EXCEPT !.unlocks = IF mutex'["fatal"] THEN @ ELSE @ + 1]
    /\ Goto(g, "call")
    /\ UNCHANGED <<loc, wg, rw, once, cfg>>

NextUnlock ==
    \/ \E g \in Workers : MuCall(g)
    \/ \E g \in Workers : MuLock(g)
    \/ \E g \in Workers : MuUnlock(g)

SpecUnlock == InitUnlock /\ [][NextUnlock]_vars

\* C19: an Unlock of a mutex that is not held ends in the fatal error, from
\* which the program takes no further step; in every other state mu is
\* held exactly when one more Lock than Unlock has returned, so no Unlock
\* was a silent no-op and no two Lock calls have acquired mu together.
C19_UnlockOfUnlockedIsFatal ==
    /\ [][(~mutex["mu"] /\ \E g \in Workers : pc[g] = "unlock" /\ pc'[g] = "call")
            => mutex'["fatal"]]_vars
    /\ [](mutex["fatal"] => ~ENABLED NextUnlock)
    /\ [](~mutex["fatal"] =>
            mem.locks - mem.unlocks = IF mutex["mu"] THEN 1 ELSE 0)

\* A goroutine has called Unlock after a Lock and an Unlock had returned:
\* mu was free and the program has ended in the fatal error.
C19_Witness ==
    /\ mutex["fatal"]
    /\ ~mutex["mu"]
    /\ mem.locks = 1
    /\ mem.unlocks = 1


(***************************************************************************)
(* Cache / basicRWMutex with an upgrade attempt: a goroutine that holds    *)
(* the read lock calls c.mu.Lock() without calling c.mu.RUnlock() first    *)
(* ("A RLock cannot be upgraded into a Lock").  loc[g].upgrade marks it.   *)
(* MaxCallers goroutines use the cache.                                    *)
(***************************************************************************)
InitUpgrade ==
    /\ cfg = [n |-> MaxCallers]
    /\ pc = [g \in Workers |-> IF g <= cfg.n THEN "call" ELSE "done"]
    /\ loc = [g \in Workers |->
                [ops |-> 0, value |-> 0, after |-> -1, upgrade |-> FALSE]]
    /\ mem = [data |-> 0]
    /\ mutex = NoMutex
    /\ wg = ZeroWaitGroup
    /\ rw = ZeroRWMutex
    /\ once = NoOnce

\* mu.RLock(); ...; mu.Lock()
RwUpgrade(g) ==
    /\ pc[g] = "get"
    /\ loc' = [loc EXCEPT ![g].upgrade = TRUE]
    /\ Goto(g, "wlock")
    /\ UNCHANGED <<mem, mutex, wg, rw, once, cfg>>

NextUpgrade ==
    \/ NextCache
    \/ \E g \in Workers : RwUpgrade(g)

SpecUpgrade == InitUpgrade /\ [][NextUpgrade]_vars

\* C20: a goroutine that called Lock() while holding a read lock never
\* acquires the write lock: it stays in Lock() (waiting for the writers'
\* mutex or for the readers to leave), its own read lock stays counted, and
\* when it waits for the readers no step of it is enabled.
C20_UpgradeBlocksForever ==
    \A g \in Workers :
       loc[g].upgrade =>
          /\ pc[g] \in {"wlock", "announce", "wsem"}
          /\ rw.readerCount >= 1
          /\ pc[g] = "wsem" => (rw.readerWait >= 1 /\ ~ENABLED CacheLockWake(g))

\* The upgrading goroutine waits for the readers to leave and is the only
\* reader left; every other goroutine has returned.
C20_Witness ==
    \E g \in Workers :
       /\ loc[g].upgrade
       /\ pc[g] = "wsem"
       /\ rw.readerWait = 1
       /\ rw.readerCount = 1
       /\ \A h \in Workers \ {g} : pc[h] = "done"


(***************************************************************************)
(* Cache / basicRWMutex with readers that never stop: the goroutines       *)
(* 1..cfg.w are writers making up to MaxOps Set calls each, the others     *)
(* are readers that call Get again and again.                              *)
(***************************************************************************)
InitRWLive ==
    /\ cfg \in [w : 1..(MaxN - 1)]
    /\ pc = [g \in Workers |-> "call"]
    /\ loc = [g \in Workers |-> [ops |-> 0, value |-> 0, after |-> -1]]
    /\ mem = [data |-> 0]
    /\ mutex = NoMutex
    /\ wg = ZeroWaitGroup
    /\ rw = ZeroRWMutex
    /\ once = NoOnce

\* the goroutine's next call: write(...) for a writer, read(...) for a reader
RWLiveCall(g) ==
    /\ pc[g] = "call"
    /\ IF g <= cfg.w
       THEN IF loc[g].ops < MaxOps
            THEN /\ loc' = [loc EXCEPT ![g].ops = @ + 1]
                 /\ Goto(g, "wlock")
            ELSE /\ UNCHANGED loc
                 /\ Goto(g, "done")
       ELSE /\ UNCHANGED loc
            /\ Goto(g, "rlock")
    /\ UNCHANGED <<mem, mutex, wg, rw, once, cfg>>

RWLiveStep(g) ==
    \/ RWLiveCall(g)
    \/ CacheRLock(g)
    \/ CacheRLockWake(g)
    \/ CacheGet(g)
    \/ CacheRUnlock(g)
    \/ CacheLockW(g)
    \/ CacheLockAnnounce(g)
    \/ CacheLockWake(g)
    \/ CacheSet(g)
    \/ CacheUnlock(g)
    \/ CacheUnlockW(g)

NextRWLive == \E g \in Workers : RWLiveStep(g)

SpecRWLive == InitRWLive /\ [][NextRWLive]_vars

\* Every goroutine that can run is eventually run; in particular a reader
\* that holds the lock eventually calls RUnlock.
FairSpecRWLive == SpecRWLive /\ \A g \in Workers : WF_vars(RWLiveStep(g))

\* C21: a writer that has called Lock() eventually holds the write lock,
\* although the readers never stop calling RLock.
C21_NoWriterStarvation ==
    \A g \in Workers :
       (pc[g] \in {"wlock", "announce", "wsem"}) ~> (pc[g] = "set")

\* A writer waits for the active readers while one reader still holds the
\* lock and another, which called RLock after the writer, is kept out.
C21_Witness ==
    /\ \E g \in Workers : pc[g] = "wsem"
    /\ \E g \in Workers : pc[g] = "get"
    /\ \E g \in Workers : pc[g] = "rsem"


\* C22: in runStarvation a worker that is in sharedLock.Lock() eventually
\* acquires sharedLock, however many lock/unlock cycles the other worker
\* completes meanwhile.
C22_LockEventuallyAcquired ==
    \A g \in StarveWorkers : (pc[g] = "lock") ~> InCritical(g)

\* The polite worker is still in its first Lock() while the greedy worker
\* has completed MaxLoops - 1 cycles and holds sharedLock again.
C22_Witness ==
    /\ pc[Polite] = "lock"
    /\ loc[Polite].count = 0
    /\ loc[Polite].section = 1
    /\ loc[Greedy].count = MaxLoops - 1
    /\ InCritical(Greedy)


(***************************************************************************)
(* wrongAddPlacement: main launches cfg.n goroutines and calls wg.Wait();  *)
(* each goroutine calls wg.Add(1) itself, then defers Done and prints.     *)
(***************************************************************************)
InitWrongAdd ==
    /\ cfg \in [n : 1..MaxN]
    /\ pc = [g \in Goroutines |-> IF g = Main THEN "go" ELSE "idle"]
    /\ loc = [g \in Goroutines |-> [i |-> 0]]
    /\ mem = [counter |-> 0]
    /\ mutex = NoMutex
    /\ wg = ZeroWaitGroup
    /\ rw = ZeroRWMutex
    /\ once = NoOnce

\* for i := range 5 { go func(id int) {...}(i) }
WrongGo ==
    /\ pc[Main] = "go"
    /\ IF loc[Main].i < cfg.n
       THEN /\ loc' = [loc EXCEPT ![Main].i = @ + 1]
            /\ pc' = [pc EXCEPT ![loc[Main].i + 1] = "start"]
       ELSE /\ UNCHANGED loc
            /\ Goto(Main, "wait")
    /\ UNCHANGED <<mem, mutex, wg, rw, once, cfg>>

\* wg.Add(1) inside the goroutine
WrongAdd(g) ==
    /\ pc[g] = "start"
    /\ WgAdd(1)
    /\ Goto(g, "body")
    /\ UNCHANGED <<loc, mem, mutex, rw, once, cfg>>

NextWrongAdd ==
    \/ WrongGo
    \/ \E g \in Workers : WrongAdd(g)
    \/ \E g \in Workers : WGBody(g)
    \/ \E g \in Workers : WGDone(g)
    \/ WGWait(Main)
    \/ WGWaitWake(Main)

SpecWrongAdd == InitWrongAdd /\ [][NextWrongAdd]_vars

\* wg.Wait() returns without sleeping
WaitReturnsAtOnce == WGWait(Main) /\ pc'[Main] = "done"

\* C23: in wrongAddPlacement, when main calls wg.Wait() while each launched
\* goroutine either has not yet executed its wg.Add(1) or has finished,
\* Wait() returns at once: it returns although goroutines have not run
\* their body.
C23_WaitCanReturnBeforeBodies ==
    (/\ pc[Main] = "wait"
     /\ \E g \in 1..cfg.n : pc[g] = "start"
     /\ \A g \in 1..cfg.n : pc[g] \in {"start", "done"})
       => ENABLED WaitReturnsAtOnce

\* wg.Wait() has returned: one goroutine has finished, the others have not
\* even called wg.Add(1).
C23_Witness ==
    /\ pc[Main] = "done"
    /\ cfg.n = MaxN
    /\ pc[1] = "done"
    /\ \A g \in 2..cfg.n : pc[g] = "start"


(***************************************************************************)
(* performanceComparison: test(count, mutex, rwMutex) starts one producer  *)
(* on the write lock of m and cfg.count observers on rwMutex, which is     *)
(* m.RLocker() (cfg.rlocker) or &m itself, and waits for all of them.      *)
(* loc.defers counts the deferred Unlock calls of the running function;    *)
(* they run when the function returns.                                     *)
(***************************************************************************)
Producer == 1
ProducerLocks == 5
Observers == 2..(cfg.count + 1)

\* rwMutex.Lock() of this goroutine is RLock()
ReadLocker(g) == g \in Observers /\ cfg.rlocker

InitPerf ==
    /\ cfg \in [count : 1..MaxCallers, rlocker : BOOLEAN]
    /\ pc = [g \in Goroutines |-> IF g = Main THEN "add" ELSE "idle"]
    /\ loc = [g \in Goroutines |-> [i |-> 0, defers |-> 0]]
    /\ mem = [counter |-> 0]
    /\ mutex = NoMutex
    /\ wg = ZeroWaitGroup
    /\ rw = ZeroRWMutex
    /\ once = NoOnce

\* wg.Add(count + 1)
PerfAdd ==
    /\ pc[Main] = "add"
    /\ WgAdd(cfg.count + 1)
    /\ Goto(Main, "go")
    /\ UNCHANGED <<loc, mem, mutex, rw, once, cfg>>

\* go producer(&wg, mutex); for i := count; i > 0; i-- { go observer(&wg, rwMutex) }
PerfGo ==
    /\ pc[Main] = "go"
    /\ IF loc[Main].i < cfg.count + 1
       THEN /\ loc' = [loc EXCEPT ![Main].i = @ + 1,
                                  ![Producer].i = IF loc[Main].i = 0 THEN ProducerLocks ELSE @]
            /\ pc' = [pc EXCEPT ![loc[Main].i + 1] =
                                   IF loc[Main].i = 0 THEN "for" ELSE "lock"]
       ELSE /\ UNCHANGED loc
            /\ Goto(Main, "wait")
    /\ UNCHANGED <<mem, mutex, wg, rw, once, cfg>>

\* producer: for i := 5; i > 0; i-- { ... }; after the loop the function
\* returns and its deferred calls run
PerfFor(g) ==
    /\ pc[g] = "for"
    /\ Goto(g, IF loc[g].i > 0 THEN "lock"
               ELSE IF loc[g].defers > 0 THEN "unlock" ELSE "wgdone")
    /\ UNCHANGED <<loc, mem, mutex, wg, rw, once, cfg>>

\* l.Lock(): RLock() through the RLocker, Lock() otherwise (rw.w first,
\* then the announcement, then the wait for the active readers)
PerfLock(g) ==
    /\ pc[g] \in {"lock", "announce", "wsem", "rsem"}
    /\ CASE pc[g] = "lock" /\ ReadLocker(g) ->
              RwRLock(g, "locked", "rsem") /\ UNCHANGED mutex
         [] pc[g] = "lock" /\ ~ReadLocker(g) ->
              MutexLock("rw.w") /\ Goto(g, "announce") /\ UNCHANGED rw
         [] pc[g] = "announce" ->
              RwLockAnnounce(g, "locked", "wsem") /\ UNCHANGED mutex
         [] pc[g] = "wsem" ->
              RwLockWake(g, "locked") /\ UNCHANGED mutex
         [] pc[g] = "rsem" ->
              RwRLockWake(g, "locked") /\ UNCHANGED mutex
    /\ UNCHANGED <<loc, mem, wg, once, cfg>>

\* defer l.Unlock(); the producer then sleeps, the observer returns
PerfDefer(g) ==
    /\ pc[g] = "locked"
    /\ loc' = [loc EXCEPT ![g].defers = @ + 1]
    /\ Goto(g, IF g = Producer THEN "sleep" ELSE "unlock")
    /\ UNCHANGED <<mem, mutex, wg, rw, once, cfg>>

\* time.Sleep(1 * time.Millisecond); i--
PerfSleep(g) ==
    /\ pc[g] = "sleep"
    /\ loc' = [loc EXCEPT ![g].i = @ - 1]
    /\ Goto(g, "for")
    /\ UNCHANGED <<mem, mutex, wg, rw, once, cfg>>

\* one deferred l.Unlock() at the return of the function: RUnlock()
\* through the RLocker, Unlock() otherwise (the announcement is withdrawn,
\* then rw.w is unlocked)
PerfUnlock(g) ==
    /\ pc[g] \in {"unlock", "unlockw"}
    /\ CASE pc[g] = "unlock" /\ ~ReadLocker(g) ->
              /\ RwUnlock
              /\ Goto(g, "unlockw")
              /\ UNCHANGED <<loc, mutex>>
         [] OTHER ->
              /\ IF ReadLocker(g)
                 THEN RwRUnlock /\ UNCHANGED mutex
                 ELSE MutexUnlock("rw.w") /\ UNCHANGED rw
              /\ loc' = [loc EXCEPT ![g].defers = @ - 1]
              /\ Goto(g, IF loc[g].defers > 1 THEN "unlock" ELSE "wgdone")
    /\ UNCHANGED <<mem, wg, once, cfg>>

\* wg.Wait(): returns at once when the counter is zero, sleeps until the
\* last Done() otherwise
PerfWait ==
    /\ pc[Main] \in {"wait", "sem"}
    /\ IF pc[Main] = "wait"
       THEN WgWaitEnter(Main, "sem", "done")
       ELSE WgWaitWake(Main, "done")
    /\ UNCHANGED <<loc, mem, mutex, rw, once, cfg>>

PerfStep(g) ==
    \/ PerfFor(g)
    \/ PerfLock(g)
    \/ PerfDefer(g)
    \/ PerfSleep(g)
    \/ PerfUnlock(g)
    \/ WGDone(g)

NextPerf ==
    \/ PerfAdd
    \/ PerfGo
    \/ PerfWait
    \/ \E g \in Workers : PerfStep(g)

SpecPerf == InitPerf /\ [][NextPerf]_vars

\* test(...) is over: the producer and every observer have returned and
\* wg.Wait() has returned.
PerfDone ==
    /\ pc[Main] = "done"
    /\ \A g \in {Producer} \cup Observers : pc[g] = "done"

\* C24: test(count, mutex, rwMutex) runs to its end for every count >= 1
\* and both observer variants: as long as the producer, an observer or
\* wg.Wait() has not returned, some goroutine can take a step.
C24_TestCompletes == PerfDone \/ ENABLED NextPerf


(***************************************************************************)
(* basicCond under fair scheduling: main and every started goroutine are   *)
(* eventually run whenever they can take a step.                           *)
(***************************************************************************)
CondMainStep ==
    \/ CondAdd
    \/ CondGo
    \/ CondMainLock
    \/ CondSet
    \/ CondSignal
    \/ CondMainUnlock
    \/ CondBroadcast
    \/ CondMainWait
    \/ CondMainWaitWake

CondStep(g) ==
    \/ CondLock(g)
    \/ CondCheck(g)
    \/ CondWaitAdd(g)
    \/ CondWaitUnlock(g)
    \/ CondPark(g)
    \/ CondWaitRelock(g)
    \/ CondUnlock(g)
    \/ CondDone(g)

FairSpecCond ==
    SpecCond /\ WF_vars(CondMainStep) /\ \A g \in Workers : WF_vars(CondStep(g))

\* C26: in basicCond (one goroutine in for !condition { c.Wait() }), once
\* main has set condition = true the goroutine eventually leaves the loop
\* and unlocks, wherever it was at that moment: before its Lock(), inside
\* Wait(), or suspended.
C26_WaiterEventuallyLeaves ==
    (cfg.loop /\ cfg.n = 1 /\ mem.condition) ~> (pc[1] = "done")

\* Main has set condition, signalled, unlocked and finished with nobody
\* waiting; the goroutine has not yet taken the lock.
C26_Witness ==
    /\ cfg.loop
    /\ cfg.n = 1
    /\ pc[Main] = "done"
    /\ mem.condition
    /\ mem.c.wait = 0
    /\ pc[1] = "lock"


(***************************************************************************)
(* buttonExample: main does clickRegistered.Add(n) and subscribes n        *)
(* handlers (3 in the source); subscribe starts a goroutine and waits      *)
(* until that goroutine has called goroutineRunning.Done(), which is the   *)
(* goroutine's first statement; the goroutine then locks c.L, waits on     *)
(* button.Clicked, runs its handler (clickRegistered.Done()) and unlocks.  *)
(* Main sleeps, broadcasts once and waits for clickRegistered.             *)
(* mem.running is the counter of subscribe's goroutineRunning; wg is       *)
(* clickRegistered.  time.Sleep orders nothing.                            *)
(***************************************************************************)
InitButton ==
    /\ cfg \in [n : 1..MaxN, loop : {FALSE}]
    /\ pc = [g \in Goroutines |-> IF g = Main THEN "add" ELSE "idle"]
    /\ loc = [g \in Goroutines |-> [i |-> 0, t |-> 0, at |-> 0]]
    /\ mem = [condition |-> FALSE, c |-> ZeroCond, calls |-> 0, running |-> 0]
    /\ mutex = NoMutex
    /\ wg = ZeroWaitGroup
    /\ rw = ZeroRWMutex
    /\ once = NoOnce

\* clickRegistered.Add(3)
ButtonAdd ==
    /\ pc[Main] = "add"
    /\ WgAdd(cfg.n)
    /\ Goto(Main, "subscribe")
    /\ UNCHANGED <<loc, mem, mutex, rw, once, cfg>>

\* subscribe: goroutineRunning.Add(1); go func() {...}()
ButtonSubscribe ==
    /\ pc[Main] = "subscribe"
    /\ mem' = [mem EXCEPT !.running = 1]
    /\ loc' = [loc EXCEPT ![Main].i = @ + 1]
    /\ pc' = [pc EXCEPT ![loc[Main].i + 1] = "start", ![Main] = "started"]
    /\ UNCHANGED <<mutex, wg, rw, once, cfg>>

\* the goroutine's first statement: goroutineRunning.Done()
ButtonStarted(g) ==
    /\ pc[g] = "start"
    /\ mem' = [mem EXCEPT !.running = @ - 1]
    /\ Goto(g, "lock")
    /\ UNCHANGED <<loc, mutex, wg, rw, once, cfg>>

\* subscribe: goroutineRunning.Wait(), then the next subscribe or the click
ButtonSubscribed ==
    /\ pc[Main] = "started"
    /\ mem.running = 0
    /\ Goto(Main, IF loc[Main].i < cfg.n THEN "subscribe" ELSE "click")
    /\ UNCHANGED <<loc, mem, mutex, wg, rw, once, cfg>>

\* time.Sleep(100 * time.Millisecond); button.Clicked.Broadcast()
ButtonBroadcast ==
    /\ pc[Main] = "click"
    /\ mem' = [mem EXCEPT !.c = CondAfterBroadcast(@), !.calls = @ + 1]
    /\ CondWake(Main, "wait", mem.c)
    /\ UNCHANGED <<loc, mutex, wg, rw, once, cfg>>

\* clickRegistered.Wait()
ButtonWait ==
    /\ pc[Main] \in {"wait", "sem"}
    /\ IF pc[Main] = "wait"
       THEN WgWaitEnter(Main, "sem", "done")
       ELSE WgWaitWake(Main, "done")
    /\ UNCHANGED <<loc, mem, mutex, rw, once, cfg>>

\* c.Wait() returns with c.L locked again
ButtonRelock(g) ==
    /\ pc[g] = "relock"
    /\ MutexLock("c.L")
    /\ Goto(g, "fn")
    /\ UNCHANGED <<loc, mem, wg, rw, once, cfg>>

\* fn(): fmt.Println(...); clickRegistered.Done()
ButtonFn(g) ==
    /\ pc[g] = "fn"
    /\ WgDone
    /\ Goto(g, "unlock")
    /\ UNCHANGED <<loc, mem, mutex, rw, once, cfg>>

\* defer c.L.Unlock()
ButtonUnlock(g) ==
    /\ pc[g] = "unlock"
    /\ MutexUnlock("c.L")
    /\ Goto(g, "done")
    /\ UNCHANGED <<loc, mem, wg, rw, once, cfg>>

ButtonStep(g) ==
    \/ ButtonStarted(g)
    \/ CondLock(g)
    \/ CondWaitAdd(g)
    \/ CondWaitUnlock(g)
    \/ CondPark(g)
    \/ ButtonRelock(g)
    \/ ButtonFn(g)
    \/ ButtonUnlock(g)

NextButton ==
    \/ ButtonAdd
    \/ ButtonSubscribe
    \/ ButtonSubscribed
    \/ ButtonBroadcast
    \/ ButtonWait
    \/ \E g \in Workers : ButtonStep(g)

SpecButton == InitButton /\ [][NextButton]_vars

\* every subscribed handler has run and returned, and
\* clickRegistered.Wait() has returned
ButtonDone ==
    /\ pc[Main] = "done"
    /\ \A g \in 1..cfg.n : pc[g] = "done"

\* C25: in buttonExample, in every interleaving, the Broadcast makes all
\* the subscribed handlers run and clickRegistered.Wait() returns: as long
\* as a handler or main has not finished, some goroutine can take a step.
C25_AllHandlersRun == ButtonDone \/ ENABLED NextButton


(***************************************************************************)
(* queueExample: main is the producer; it adds cfg.items items (10 in the  *)
(* source, QueueItems here) under c.L, waiting while the queue holds       *)
(* QueueFull items, and starts one consumer goroutine per item added.      *)
(* Consumer k is goroutine                                                 *)
(* k: it sleeps, locks c.L, drops the head of the queue, unlocks and       *)
(* signals.  mem.queue holds the numbers of the items; a queue[1:] on an   *)
(* empty queue panics (mem.panic).  time.Sleep orders nothing.             *)
(***************************************************************************)
QueueFull == 2
QueueItems == MaxN + 1
Consumers == 1..QueueItems

InitQueue ==
    /\ cfg = [items |-> QueueItems, loop |-> TRUE]
    /\ pc = [g \in {Main} \cup Consumers |-> IF g = Main THEN "for" ELSE "idle"]
    /\ loc = [g \in {Main} \cup Consumers |-> [i |-> 0, t |-> 0, at |-> 0]]
    /\ mem = [condition |-> FALSE, c |-> ZeroCond, calls |-> 0,
              queue |-> <<>>, panic |-> FALSE]
    /\ mutex = NoMutex
    /\ wg = ZeroWaitGroup
    /\ rw = ZeroRWMutex
    /\ once = NoOnce

\* for i := 0; i < 10; i++ {
QueueFor ==
    /\ pc[Main] = "for"
    /\ Goto(Main, IF loc[Main].i < cfg.items THEN "lock" ELSE "done")
    /\ UNCHANGED <<loc, mem, mutex, wg, rw, once, cfg>>

\* a producer that never waits
QueueCheckNever ==
    /\ pc[Main] = "check"
    /\ Goto(Main, "append")
    /\ UNCHANGED <<loc, mem, mutex, wg, rw, once, cfg>>

\* for len(queue) == 2 {
QueueCheck ==
    /\ pc[Main] = "check"
    /\ Goto(Main, IF Len(mem.queue) = QueueFull THEN "wait" ELSE "append")
    /\ UNCHANGED <<loc, mem, mutex, wg, rw, once, cfg>>

\* queue = append(queue, struct{}{}); go removeFromQueue(1 * time.Second)
QueueAppend ==
    /\ pc[Main] = "append"
    /\ mem' = [mem EXCEPT !.queue = Append(@, loc[Main].i + 1)]
    /\ pc' = [pc EXCEPT ![Main] = "unlock", ![loc[Main].i + 1] = "clock"]
    /\ UNCHANGED <<loc, mutex, wg, rw, once, cfg>>

\* c.L.Unlock(); i++
QueueUnlock ==
    /\ pc[Main] = "unlock"
    /\ MutexUnlock("c.L")
    /\ loc' = [loc EXCEPT ![Main].i = @ + 1]
    /\ Goto(Main, "for")
    /\ UNCHANGED <<mem, wg, rw, once, cfg>>

\* removeFromQueue: time.Sleep(delay); c.L.Lock()
QueueRemoveLock(g) ==
    /\ pc[g] = "clock"
    /\ MutexLock("c.L")
    /\ Goto(g, "dequeue")
    /\ UNCHANGED <<loc, mem, wg, rw, once, cfg>>

\* queue = queue[1:]
QueueRemove(g) ==
    /\ pc[g] = "dequeue"
    /\ IF mem.queue = <<>>
       THEN /\ mem' = [mem EXCEPT !.panic = TRUE]
            /\ Goto(g, "panic")
       ELSE /\ mem' = [mem EXCEPT !.queue = Tail(@)]
            /\ Goto(g, "cunlock")
    /\ UNCHANGED <<loc, mutex, wg, rw, once, cfg>>

\* removeFromQueue: c.L.Unlock()
QueueRemoveUnlock(g) ==
    /\ pc[g] = "cunlock"
    /\ MutexUnlock("c.L")
    /\ Goto(g, "signal")
    /\ UNCHANGED <<loc, mem, wg, rw, once, cfg>>

\* a consumer that returns without signalling
QueueSignalNone(g) ==
    /\ pc[g] = "signal"
    /\ Goto(g, "done")
    /\ UNCHANGED <<loc, mem, mutex, wg, rw, once, cfg>>

\* c.Signal()
QueueSignal(g) ==
    /\ pc[g] = "signal"
    /\ mem' = [mem EXCEPT !.c = CondAfterSignal(@), !.calls = @ + 1]
    /\ CondWake(g, "done", mem.c)
    /\ UNCHANGED <<loc, mutex, wg, rw, once, cfg>>

\* the producer's steps
QueueProducerStep ==
    \/ QueueFor
    \/ CondLock(Main)
    \/ QueueCheck
    \/ CondWaitAdd(Main)
    \/ CondWaitUnlock(Main)
    \/ CondPark(Main)
    \/ CondWaitRelock(Main)
    \/ QueueAppend
    \/ QueueUnlock

\* a consumer's steps
QueueConsumerStep(g) ==
    \/ QueueRemoveLock(g)
    \/ QueueRemove(g)
    \/ QueueRemoveUnlock(g)
    \/ QueueSignal(g)

NextQueue == QueueProducerStep \/ \E g \in Consumers : QueueConsumerStep(g)

SpecQueue == InitQueue /\ [][NextQueue]_vars

\* The producer and every started consumer are eventually run whenever
\* they can take a step.
FairSpecQueue ==
    SpecQueue /\ WF_vars(QueueProducerStep)
              /\ \A g \in Consumers : WF_vars(QueueConsumerStep(g))

\* the producer is inside c.Wait()
ProducerWaiting == pc[Main] \in {"wait", "wunlock", "park", "parked", "relock"}

\* C27: in queueExample the queue never holds more than 2 items, and no
\* consumer executes queue = queue[1:] on an empty queue: the item its own
\* append added, or an older one, is still there.
C27_QueueBounded ==
    /\ Len(mem.queue) <= QueueFull
    /\ ~mem.panic
    /\ \A g \in Consumers : pc[g] = "dequeue" => Len(mem.queue) >= 1

\* The queue is full, the producer is suspended for the third item and a
\* consumer is about to dequeue.
C27_Witness ==
    /\ Len(mem.queue) = QueueFull
    /\ pc[Main] = "parked"
    /\ loc[Main].i = QueueFull
    /\ \E g \in Consumers : pc[g] = "dequeue"

\* C28: in queueExample the producer is never blocked forever in c.Wait():
\* whenever it waits with the queue full it eventually appends, and it
\* eventually has added all its items.
C28_ProducerAddsAll ==
    /\ ProducerWaiting ~> (pc[Main] = "append")
    /\ <>(pc[Main] = "done" /\ loc[Main].i = cfg.items)

\* The producer is suspended with the queue full; a consumer has removed
\* nothing yet and its Signal is still to come.
C28_Witness ==
    /\ pc[Main] = "parked"
    /\ Len(mem.queue) = QueueFull
    /\ mem.calls = 0
    /\ \E g \in Consumers : pc[g] = "clock"


(***************************************************************************)
(* WorkerPool / workerPoolExample: main starts cfg.n workers (3 in the     *)
(* source), then calls AddTask up to MaxCalls times (5 in the source) and  *)
(* Shutdown, at moments of its choice, and waits for the workers.  Task k  *)
(* is the k-th task added; mem.taken lists the tasks in the order the      *)
(* workers dequeued them; tasks[0] on an empty slice panics (mem.panic).   *)
(* wp.mu is c.L.  time.Sleep orders nothing.                               *)
(***************************************************************************)
InitWP ==
    /\ cfg \in [n : 1..MaxCallers, loop : {TRUE}]
    /\ pc = [g \in Goroutines |-> IF g = Main THEN "start" ELSE "idle"]
    /\ loc = [g \in Goroutines |-> [i |-> 0, t |-> 0, at |-> 0]]
    /\ mem = [condition |-> FALSE, c |-> ZeroCond, calls |-> 0,
              tasks |-> <<>>, shutdown |-> FALSE, added |-> 0,
              taken |-> <<>>, panic |-> FALSE]
    /\ mutex = NoMutex
    /\ wg = ZeroWaitGroup
    /\ rw = ZeroRWMutex
    /\ once = NoOnce

\* for i := 1; i <= 3; i++ { wg.Add(1); go func(id int) {...}(i) }
WPStart ==
    /\ pc[Main] = "start"
    /\ WgAdd(1)
    /\ loc' = [loc EXCEPT ![Main].i = @ + 1]
    /\ pc' = [pc EXCEPT ![loc[Main].i + 1] = "lock",
                        ![Main] = IF loc[Main].i + 1 < cfg.n THEN "start" ELSE "next"]
    /\ UNCHANGED <<mem, mutex, rw, once, cfg>>

\* pool.AddTask(task): Lock, append, Unlock, Signal
WPAddTask ==
    /\ pc[Main] \in {"next", "tappend", "tunlock", "tsignal"}
    /\ CASE pc[Main] = "next" ->
              /\ mem.added < MaxCalls
              /\ MutexLock("c.L")
              /\ Goto(Main, "tappend")
              /\ UNCHANGED mem
         [] pc[Main] = "tappend" ->
              /\ mem' = [mem EXCEPT !.tasks = Append(@, mem.added + 1),
                                    !.added = @ + 1]
              /\ Goto(Main, "tunlock")
              /\ UNCHANGED mutex
         [] pc[Main] = "tunlock" ->
              /\ MutexUnlock("c.L")
              /\ Goto(Main, "tsignal")
              /\ UNCHANGED mem
         [] pc[Main] = "tsignal" ->
              /\ mem' = [mem EXCEPT !.c = CondAfterSignal(@)]
              /\ CondWake(Main, "next", mem.c)
              /\ UNCHANGED mutex
    /\ UNCHANGED <<loc, wg, rw, once, cfg>>

\* pool.Shutdown(): Lock, shutdown = true, Unlock, Broadcast
WPShutdown ==
    /\ pc[Main] \in {"next", "sset", "sunlock", "sbroadcast"}
    /\ CASE pc[Main] = "next" ->
              /\ MutexLock("c.L")
              /\ Goto(Main, "sset")
              /\ UNCHANGED mem
         [] pc[Main] = "sset" ->
              /\ mem' = [mem EXCEPT !.shutdown = TRUE]
              /\ Goto(Main, "sunlock")
              /\ UNCHANGED mutex
         [] pc[Main] = "sunlock" ->
              /\ MutexUnlock("c.L")
              /\ Goto(Main, "sbroadcast")
              /\ UNCHANGED mem
         [] pc[Main] = "sbroadcast" ->
              /\ mem' = [mem EXCEPT !.c = CondAfterBroadcast(@)]
              /\ CondWake(Main, "wait", mem.c)
              /\ UNCHANGED mutex
    /\ UNCHANGED <<loc, wg, rw, once, cfg>>

\* wg.Wait()
WPWait ==
    /\ pc[Main] \in {"wait", "sem"}
    /\ IF pc[Main] = "wait"
       THEN WgWaitEnter(Main, "sem", "done")
       ELSE WgWaitWake(Main, "done")
    /\ UNCHANGED <<loc, mem, mutex, rw, once, cfg>>

\* for len(wp.tasks) == 0 && !wp.shutdown { Wait }; if wp.shutdown { ... }
WPCheck(g) ==
    /\ pc[g] = "check"
    /\ Goto(g, IF Len(mem.tasks) = 0 /\ ~mem.shutdown THEN "wait"
               ELSE IF mem.shutdown THEN "exit" ELSE "take")
    /\ UNCHANGED <<loc, mem, mutex, wg, rw, once, cfg>>

\* a worker that does not test again after a Wait
WPRelockNoRecheck(g) ==
    /\ pc[g] = "relock"
    /\ MutexLock("c.L")
    /\ Goto(g, IF mem.shutdown THEN "exit" ELSE "take")
    /\ loc' = [loc EXCEPT ![g].t = 0]
    /\ UNCHANGED <<mem, wg, rw, once, cfg>>

\* wp.cond.Wait() returns with c.L locked (its ticket is forgotten); the
\* for loop tests again
WPRelock(g) ==
    /\ pc[g] = "relock"
    /\ MutexLock("c.L")
    /\ Goto(g, "check")
    /\ loc' = [loc EXCEPT ![g].t = 0]
    /\ UNCHANGED <<mem, wg, rw, once, cfg>>

\* task := wp.tasks[0]; wp.tasks = wp.tasks[1:]
WPTake(g) ==
    /\ pc[g] = "take"
    /\ IF mem.tasks = <<>>
       THEN /\ mem' = [mem EXCEPT !.panic = TRUE]
            /\ Goto(g, "panic")
       ELSE /\ mem' = [mem EXCEPT !.tasks = Tail(@),
                                  !.taken = Append(@, Head(mem.tasks))]
            /\ Goto(g, "unlock")
    /\ UNCHANGED <<loc, mutex, wg, rw, once, cfg>>

\* wp.cond.L.Unlock(): before the return, or after a dequeue; the task is
\* then processed outside the lock (Printf, Sleep) and the loop goes on
WPUnlock(g) ==
    /\ pc[g] \in {"unlock", "exit"}
    /\ MutexUnlock("c.L")
    /\ Goto(g, IF pc[g] = "exit" THEN "wgdone" ELSE "lock")
    /\ UNCHANGED <<loc, mem, wg, rw, once, cfg>>

WPMainStep ==
    \/ WPStart
    \/ WPAddTask
    \/ WPShutdown
    \/ WPWait

WPWorkerStep(g) ==
    \/ CondLock(g)
    \/ WPCheck(g)
    \/ CondWaitAdd(g)
    \/ CondWaitUnlock(g)
    \/ CondPark(g)
    \/ WPRelock(g)
    \/ WPTake(g)
    \/ WPUnlock(g)
    \/ CondDone(g)

NextWP == WPMainStep \/ \E g \in Workers : WPWorkerStep(g)

SpecWP == InitWP /\ [][NextWP]_vars

\* Main and every started worker are eventually run whenever they can
\* take a step.
FairSpecWP ==
    SpecWP /\ WF_vars(WPMainStep)
           /\ \A g \in 1..MaxCallers : WF_vars(WPWorkerStep(g))

\* a worker that has seen shutdown == true
Returning(g) == pc[g] \in {"exit", "wgdone", "done"}

\* C29: in WorkerPool the k-th task dequeued is the k-th task added (so
\* every task is dequeued at most once and in the order of the AddTask
\* calls), and a worker reads tasks[0] only when len(tasks) > 0.
C29_TasksOnceInOrder ==
    /\ Len(mem.taken) <= mem.added
    /\ \A k \in 1..Len(mem.taken) : mem.taken[k] = k
    /\ ~mem.panic
    /\ \A g \in Workers : pc[g] = "take" => Len(mem.tasks) > 0

\* A worker was woken by the Signal for a task that the other worker, which
\* was not waiting, has already dequeued: the wake-up finds no task.
C29_Witness ==
    /\ \E g \in Workers : pc[g] = "relock"
    /\ \E g \in Workers : pc[g] = "lock"
    /\ mem.tasks = <<>>
    /\ mem.taken = <<1>>
    /\ pc[Main] = "next"

\* C30: once shutdown is set every worker eventually returns, wherever it
\* was; a worker about to dequeue holds c.L with shutdown still false, and
\* a worker that has seen shutdown == true never goes back to the queue.
C30_ShutdownStopsWorkers ==
    /\ mem.shutdown ~> (\A g \in 1..cfg.n : pc[g] = "done")
    /\ [](\A g \in Workers : pc[g] = "take" => ~mem.shutdown)
    /\ [][\A g \in Workers : Returning(g) => Returning(g)']_vars

\* Shutdown has set the flag with a task still queued, one worker inside
\* Wait (woken for that task, c.L not yet re-acquired) and the other
\* processing the task it dequeued.
C30_Witness ==
    /\ pc[Main] = "sunlock"
    /\ mem.shutdown
    /\ Len(mem.tasks) > 0
    /\ \E g \in Workers : pc[g] = "relock"
    /\ \E g \in Workers : pc[g] = "lock"
    /\ mem.taken = <<1>>


(***************************************************************************)
(* memoryOptimization: New increments numCalcsCreated (a read followed by  *)
(* a write, without synchronisation) and allocates.  Main seeds calcPool   *)
(* with CalcSeeds objects, starts cfg.n workers (1024 * 1024 in the        *)
(* source) that each Get an object and Put it back, and waits.  Get calls  *)
(* New outside the pool when it found no free object.                      *)
(* mem.pool.created counts the invocations of New.                         *)
(***************************************************************************)
CalcSeeds == 4

InitCalc ==
    /\ cfg \in [n : 1..MaxN]
    /\ pc = [g \in Goroutines |-> IF g = Main THEN "seed" ELSE "idle"]
    /\ loc = [g \in Goroutines |-> [i |-> 0, tmp |-> 0, obj |-> 0]]
    /\ mem = [pool |-> ZeroPool, numCalcsCreated |-> 0]
    /\ mutex = NoMutex
    /\ wg = ZeroWaitGroup
    /\ rw = ZeroRWMutex
    /\ once = NoOnce

\* calcPool.Put(calcPool.New()), four times; then wg.Add(numWorkers)
CalcSeed ==
    /\ pc[Main] = "seed"
    /\ IF loc[Main].i < CalcSeeds
       THEN /\ mem' = [mem EXCEPT
                         !.pool = PoolAfterPut(PoolNew(@), mem.pool.created + 1),
                         !.numCalcsCreated = @ + 1]
            /\ loc' = [loc EXCEPT ![Main].i = @ + 1]
            /\ UNCHANGED <<pc, wg>>
       ELSE /\ WgAdd(cfg.n)
            /\ loc' = [loc EXCEPT ![Main].i = 0]
            /\ Goto(Main, "go")
            /\ UNCHANGED mem
    /\ UNCHANGED <<mutex, rw, once, cfg>>

\* for i := numWorkers; i > 0; i-- { go func() {...}() }
CalcGo ==
    /\ pc[Main] = "go"
    /\ IF loc[Main].i < cfg.n
       THEN /\ loc' = [loc EXCEPT ![Main].i = @ + 1]
            /\ pc' = [pc EXCEPT ![loc[Main].i + 1] = "get"]
       ELSE /\ UNCHANGED loc
            /\ Goto(Main, "wait")
    /\ UNCHANGED <<mem, mutex, wg, rw, once, cfg>>

\* mem := calcPool.Get(): a free object, or the call of New
CalcGet(g) ==
    /\ pc[g] = "get"
    /\ IF FreeList(mem.pool) # <<>>
       THEN /\ mem' = [mem EXCEPT !.pool = PoolAfterGet(@)]
            /\ loc' = [loc EXCEPT ![g].obj = PoolGot(mem.pool)]
            /\ Goto(g, "put")
       ELSE /\ UNCHANGED <<mem, loc>>
            /\ Goto(g, "new")
    /\ UNCHANGED <<mutex, wg, rw, once, cfg>>

\* New: numCalcsCreated++, the read
CalcNewRead(g) ==
    /\ pc[g] = "new"
    /\ loc' = [loc EXCEPT ![g].tmp = mem.numCalcsCreated]
    /\ Goto(g, "newwrite")
    /\ UNCHANGED <<mem, mutex, wg, rw, once, cfg>>

\* New: numCalcsCreated++, the write; mem := make([]byte, 1024); return &mem
CalcNewWrite(g) ==
    /\ pc[g] = "newwrite"
    /\ mem' = [mem EXCEPT !.pool = PoolNew(@),
                          !.numCalcsCreated = loc[g].tmp + 1]
    /\ loc' = [loc EXCEPT ![g].obj = mem.pool.created + 1, ![g].tmp = 0]
    /\ Goto(g, "put")
    /\ UNCHANGED <<mutex, wg, rw, once, cfg>>

\* _ = (*mem)[0]; defer calcPool.Put(mem)
CalcPut(g) ==
    /\ pc[g] = "put"
    /\ mem' = [mem EXCEPT !.pool = PoolAfterPut(@, loc[g].obj)]
    /\ loc' = [loc EXCEPT ![g].obj = 0]
    /\ Goto(g, "wgdone")
    /\ UNCHANGED <<mutex, wg, rw, once, cfg>>

\* "Objects can be evicted at any time (GC can clear the pool)"
CalcEvict ==
    /\ FreeList(mem.pool) # <<>>
    /\ mem' = [mem EXCEPT !.pool = PoolAfterEvict(@)]
    /\ UNCHANGED <<pc, loc, mutex, wg, rw, once, cfg>>

NextCalc ==
    \/ CalcSeed
    \/ CalcGo
    \/ WGWait(Main)
    \/ WGWaitWake(Main)
    \/ CalcEvict
    \/ \E g \in Workers :
          \/ CalcGet(g)
          \/ CalcNewRead(g)
          \/ CalcNewWrite(g)
          \/ CalcPut(g)
          \/ WGDone(g)

SpecCalc == InitCalc /\ [][NextCalc]_vars

\* C31: in memoryOptimization, after wg.Wait() has returned,
\* numCalcsCreated equals the number of times New was invoked, in every
\* interleaving of the workers.
C31_CountsEveryNew ==
    pc[Main] = "done" => mem.numCalcsCreated = mem.pool.created


(***************************************************************************)
(* runDeadlock under fair scheduling: main and both printSum goroutines    *)
(* are eventually run whenever they can take a step.  The sleep is an      *)
(* arbitrary delay.                                                        *)
(***************************************************************************)
DLMainStep == DLAdd \/ DLGo \/ DLWait \/ DLWaitWake

FairSpecDeadlock ==
    SpecDeadlock /\ WF_vars(DLMainStep) /\ \A g \in Summers : WF_vars(DLStep(g))

\* both printSum calls have printed their sum and returned, and wg.Wait()
\* has returned
DLFinished ==
    /\ pc[Main] = "done"
    /\ wg.v = 0
    /\ \A g \in Summers : pc[g] = "done" /\ loc[g].sum = mem.a + mem.b

\* C32: in runDeadlock, when one printSum has acquired both locks (the
\* other then cannot hold its first lock), both goroutines eventually print
\* a sum and call wg.Done(), and wg.Wait() returns.
C32_NoDeadlockWhenOneGoesFirst ==
    (cfg.prog = "runDeadlock" /\ \E g \in Summers : pc[g] = "print")
       ~> DLFinished

\* printSum(&a, &b) has returned before printSum(&b, &a) acquired its
\* first lock.
C32_Witness ==
    /\ cfg.prog = "runDeadlock"
    /\ pc[1] = "done"
    /\ loc[1].sum = 0
    /\ pc[2] = "lock1"


(***************************************************************************)
(* runLivelock: the cadence goroutine broadcasts on cadence at every tick; *)
(* Alice and Barbara (goroutines 1 and 2) run walk: up to WalkRounds       *)
(* rounds of tryDir(left) || tryDir(right).  tryDir adds 1 to the          *)
(* direction's counter, takes a step (Lock, Wait, Unlock on cadence),      *)
(* succeeds when the counter is 1, and otherwise takes another step and    *)
(* subtracts 1.  c.L is cadence.L; loc.d is the direction tried, loc.step  *)
(* the takeStep call of the current tryDir, loc.won the direction in which *)
(* the walker succeeded; mem.won counts the successes per direction.       *)
(***************************************************************************)
Walkers == {1, 2}
Cadence == 3
WalkRounds == 5

InitLivelock ==
    /\ cfg = [n |-> 2, loop |-> FALSE]
    /\ pc = [g \in Goroutines |->
                IF g = Main THEN "add" ELSE IF g = Cadence THEN "tick" ELSE "idle"]
    /\ loc = [g \in Goroutines |->
                [i |-> 0, t |-> 0, at |-> 0, d |-> "left", step |-> 1, won |-> ""]]
    /\ mem = [condition |-> FALSE, c |-> ZeroCond, calls |-> 0,
              left |-> 0, right |-> 0, won |-> [left |-> 0, right |-> 0]]
    /\ mutex = NoMutex
    /\ wg = ZeroWaitGroup
    /\ rw = ZeroRWMutex
    /\ once = NoOnce

\* wg.Add(2); go walk("Alice"); go walk("Barbara")
LLGo ==
    /\ pc[Main] \in {"add", "go"}
    /\ IF pc[Main] = "add"
       THEN /\ WgAdd(2)
            /\ Goto(Main, "go")
            /\ UNCHANGED loc
       ELSE /\ loc' = [loc EXCEPT ![Main].i = @ + 1]
            /\ pc' = [pc EXCEPT ![loc[Main].i + 1] = "for",
                                ![Main] = IF loc[Main].i + 1 < 2 THEN "go" ELSE "wait"]
            /\ UNCHANGED wg
    /\ UNCHANGED <<mem, mutex, rw, once, cfg>>

\* for range time.Tick(1 * time.Millisecond) { cadence.Broadcast() }
LLBroadcast ==
    /\ pc[Cadence] = "tick"
    /\ mem' = [mem EXCEPT !.c = CondAfterBroadcast(@)]
    /\ CondWake(Cadence, "tick", mem.c)
    /\ UNCHANGED <<loc, mutex, wg, rw, once, cfg>>

\* a walk that never gives up
LLForEver(g) ==
    /\ pc[g] = "for"
    /\ loc' = [loc EXCEPT ![g].d = "left", ![g].step = 1]
    /\ Goto(g, "intent")
    /\ UNCHANGED <<mem, mutex, wg, rw, once, cfg>>

\* for i := 0; i < 5; i++ { if tryDir("left", ...) || ... }
LLFor(g) ==
    /\ pc[g] = "for"
    /\ loc' = [loc EXCEPT ![g].d = "left", ![g].step = 1]
    /\ Goto(g, IF loc[g].i < WalkRounds THEN "intent" ELSE "wgdone")
    /\ UNCHANGED <<mem, mutex, wg, rw, once, cfg>>

\* tryDir: atomic.AddInt32(dir, 1); takeStep()
LLIntent(g) ==
    /\ pc[g] = "intent"
    /\ mem' = [mem EXCEPT ![loc[g].d] = @ + 1]
    /\ Goto(g, "lock")
    /\ UNCHANGED <<loc, mutex, wg, rw, once, cfg>>

\* takeStep: cadence.L.Unlock(), and the return into tryDir
LLUnlock(g) ==
    /\ pc[g] = "unlock"
    /\ MutexUnlock("c.L")
    /\ Goto(g, IF loc[g].step = 1 THEN "load" ELSE "revert")
    /\ UNCHANGED <<loc, mem, wg, rw, once, cfg>>

\* if atomic.LoadInt32(dir) == 1 { return true }; takeStep()
LLLoad(g) ==
    /\ pc[g] = "load"
    /\ IF mem[loc[g].d] = 1
       THEN /\ mem' = [mem EXCEPT !.won[loc[g].d] = @ + 1]
            /\ loc' = [loc EXCEPT ![g].won = loc[g].d]
            /\ Goto(g, "wgdone")
       ELSE /\ loc' = [loc EXCEPT ![g].step = 2]
            /\ Goto(g, "lock")
            /\ UNCHANGED mem
    /\ UNCHANGED <<mutex, wg, rw, once, cfg>>

\* a tryDir that does not step back when it is blocked
LLRevertNone(g) ==
    /\ pc[g] = "revert"
    /\ IF loc[g].d = "left"
       THEN /\ loc' = [loc EXCEPT ![g].d = "right", ![g].step = 1]
            /\ Goto(g, "intent")
       ELSE /\ loc' = [loc EXCEPT ![g].i = @ + 1]
            /\ Goto(g, "for")
    /\ UNCHANGED <<mem, mutex, wg, rw, once, cfg>>

\* atomic.AddInt32(dir, -1); return false: the other direction, or i++
LLRevert(g) ==
    /\ pc[g] = "revert"
    /\ mem' = [mem EXCEPT ![loc[g].d] = @ - 1]
    /\ IF loc[g].d = "left"
       THEN /\ loc' = [loc EXCEPT ![g].d = "right", ![g].step = 1]
            /\ Goto(g, "intent")
       ELSE /\ loc' = [loc EXCEPT ![g].i = @ + 1]
            /\ Goto(g, "for")
    /\ UNCHANGED <<mutex, wg, rw, once, cfg>>

LLMainStep == LLGo \/ WGWait(Main) \/ WGWaitWake(Main)

LLStep(g) ==
    \/ LLFor(g)
    \/ LLIntent(g)
    \/ CondLock(g)
    \/ CondWaitAdd(g)
    \/ CondWaitUnlock(g)
    \/ CondPark(g)
    \/ CondWaitRelock(g)
    \/ LLUnlock(g)
    \/ LLLoad(g)
    \/ LLRevert(g)
    \/ WGDone(g)

NextLivelock == LLMainStep \/ LLBroadcast \/ \E g \in Walkers : LLStep(g)

SpecLivelock == InitLivelock /\ [][NextLivelock]_vars

\* The cadence goroutine keeps broadcasting; main and both walkers are
\* eventually run whenever they can take a step.
FairSpecLivelock ==
    /\ SpecLivelock
    /\ WF_vars(LLMainStep)
    /\ WF_vars(LLBroadcast)
    /\ \A g \in Walkers : WF_vars(LLStep(g))

\* the walker is inside takeStep()
InTakeStep(g) ==
    pc[g] \in {"lock", "wait", "wunlock", "park", "parked", "relock", "unlock"}

\* C33: runLivelock terminates: every takeStep() eventually returns, no
\* walker starts more than WalkRounds rounds, both walkers return and
\* wg.Wait() returns.
C33_LivelockTerminates ==
    /\ \A g \in Walkers : InTakeStep(g) ~> (pc[g] \in {"load", "revert"})
    /\ [](\A g \in Walkers : loc[g].i <= WalkRounds)
    /\ <>(pc[Main] = "done" /\ \A g \in Walkers : pc[g] = "done")

\* Both walkers have been blocked in every round and are about to give up.
C33_Witness ==
    /\ \A g \in Walkers : loc[g].i = WalkRounds /\ pc[g] = "for"
    /\ mem.left = 0
    /\ mem.right = 0

\* C34: in runLivelock left and right stay within 0..2, at most one tryDir
\* succeeds per direction, and when both walkers have returned each counter
\* equals the number of successful tryDir calls on its direction.
C34_DirectionCounters ==
    /\ mem.left \in 0..2
    /\ mem.right \in 0..2
    /\ mem.won.left <= 1
    /\ mem.won.right <= 1
    /\ (\A g \in Walkers : pc[g] = "done")
          => (mem.left = mem.won.left /\ mem.right = mem.won.right)

\* Both walkers have returned, one after a success on the left, the other
\* after a success on the right.
C34_Witness ==
    /\ \A g \in Walkers : pc[g] = "done"
    /\ mem.left = 1
    /\ mem.right = 1
    /\ \E g \in Walkers : loc[g].won = "left" /\ loc[g].i > 0

(***************************************************************************)
(* criticalSections: Withdrawals goroutines each call withdraw(Amount) on  *)
(* a balance of StartBalance.  withdraw holds mu from its first statement  *)
(* to its return; balance -= amount is a read followed by a write.         *)
(* loc.tmp is the balance read, loc.saw the balance the test observed and  *)
(* loc.ok the value withdraw returned (0: none yet, 1: true, 2: false).    *)
(***************************************************************************)
Withdrawals == 5
StartBalance == 1000
Amount == 200
Withdrawers == 1..Withdrawals

InitCritical ==
    /\ cfg = [n |-> Withdrawals]
    /\ pc = [g \in {Main} \cup Withdrawers |-> IF g = Main THEN "add" ELSE "idle"]
    /\ loc = [g \in {Main} \cup Withdrawers |-> [i |-> 0, tmp |-> 0, saw |-> 0, ok |-> 0]]
    /\ mem = [balance |-> StartBalance]
    /\ mutex = NoMutex
    /\ wg = ZeroWaitGroup
    /\ rw = ZeroRWMutex
    /\ once = NoOnce

\* for i := range 5 { wg.Add(1); go func(id int) {...}(i) }
CSFor ==
    /\ pc[Main] \in {"add", "go"}
    /\ IF pc[Main] = "go"
       THEN /\ loc' = [loc EXCEPT ![Main].i = @ + 1]
            /\ pc' = [pc EXCEPT ![loc[Main].i + 1] = "lock", ![Main] = "add"]
            /\ UNCHANGED wg
       ELSE /\ IF loc[Main].i < cfg.n
               THEN WgAdd(1) /\ Goto(Main, "go")
               ELSE Goto(Main, "wait") /\ UNCHANGED wg
            /\ UNCHANGED loc
    /\ UNCHANGED <<mem, mutex, rw, once, cfg>>

\* a withdraw that enters without waiting for mu
CSLockUnguarded(g) ==
    /\ pc[g] = "lock"
    /\ mutex' = [mutex EXCEPT !["mu"] = TRUE]
    /\ Goto(g, "check")
    /\ UNCHANGED <<loc, mem, wg, rw, once, cfg>>

\* mu.Lock(); defer mu.Unlock()
CSLock(g) ==
    /\ pc[g] = "lock"
    /\ MutexLock("mu")
    /\ Goto(g, "check")
    /\ UNCHANGED <<loc, mem, wg, rw, once, cfg>>

\* if balance >= amount { time.Sleep(...) ... } ... return false
CSCheck(g) ==
    /\ pc[g] = "check"
    /\ IF mem.balance >= Amount
       THEN /\ loc' = [loc EXCEPT ![g].saw = mem.balance]
            /\ Goto(g, "read")
       ELSE /\ loc' = [loc EXCEPT ![g].saw = mem.balance, ![g].ok = 2]
            /\ Goto(g, "unlock")
    /\ UNCHANGED <<mem, mutex, wg, rw, once, cfg>>

\* balance -= amount: the read
CSRead(g) ==
    /\ pc[g] = "read"
    /\ loc' = [loc EXCEPT ![g].tmp = mem.balance]
    /\ Goto(g, "write")
    /\ UNCHANGED <<mem, mutex, wg, rw, once, cfg>>

\* balance -= amount: the write; return true
CSWrite(g) ==
    /\ pc[g] = "write"
    /\ mem' = [mem EXCEPT !.balance = loc[g].tmp - Amount]
    /\ loc' = [loc EXCEPT ![g].ok = 1]
    /\ Goto(g, "unlock")
    /\ UNCHANGED <<mutex, wg, rw, once, cfg>>

\* the deferred mu.Unlock(); withdraw returns into the goroutine
CSUnlock(g) ==
    /\ pc[g] = "unlock"
    /\ MutexUnlock("mu")
    /\ Goto(g, "wgdone")
    /\ UNCHANGED <<loc, mem, wg, rw, once, cfg>>

CSStep(g) ==
    \/ CSLock(g)
    \/ CSCheck(g)
    \/ CSRead(g)
    \/ CSWrite(g)
    \/ CSUnlock(g)
    \/ WGDone(g)

NextCritical ==
    \/ CSFor
    \/ WGWait(Main)
    \/ WGWaitWake(Main)
    \/ \E g \in Withdrawers : CSStep(g)

SpecCritical == InitCritical /\ [][NextCritical]_vars

\* the goroutine is inside withdraw's critical section
InWithdraw(g) == pc[g] \in {"check", "read", "write", "unlock"}

\* C35: in criticalSections the balance is never negative; it changes only
\* by a withdraw that holds mu and observed balance >= amount, which takes
\* amount off it; and when wg.Wait() has returned all five withdrawals
\* have succeeded and the balance is 0.
C35_BalanceSafe ==
    /\ [](mem.balance >= 0)
    /\ [][mem.balance' # mem.balance =>
            \E g \in Withdrawers :
                /\ pc[g] = "write"
                /\ pc'[g] = "unlock"
                /\ mutex["mu"]
                /\ \A h \in Withdrawers \ {g} : ~InWithdraw(h)
                /\ loc[g].saw >= Amount
                /\ loc[g].saw = mem.balance
                /\ mem.balance' = mem.balance - Amount]_vars
    /\ [](pc[Main] = "done" =>
            /\ mem.balance = 0
            /\ \A g \in Withdrawers : loc[g].ok = 1)

\* wg.Wait() has returned, which it did after sleeping on the semaphore,
\* and the last withdrawal observed a balance of exactly amount.
C35_Witness ==
    /\ pc[Main] = "done"
    /\ mem.balance = 0
    /\ \E g \in Withdrawers : loc[g].saw = Amount /\ loc[g].ok = 1

(***************************************************************************)
(* closuresAndScope and loopVariablePitfall.  Both start their goroutines  *)
(* with wg.Go(f), which is wg.Add(1); go func() { defer wg.Done(); f() }() *)
(* closuresAndScope calls wg.Add(1) itself first and its f defers          *)
(* wg.Done() before it assigns salutation; loopVariablePitfall assigns the *)
(* loop variable to salutation and its f prints salutation.  loc.tmp is    *)
(* the string a Printf read.                                               *)
(* memoryAccessSynchronization, of the same file: a goroutine runs         *)
(* memoryAccess.Lock(); data++; memoryAccess.Unlock() while main locks     *)
(* memoryAccess, tests data == 0, prints data and unlocks.  loc.v is the   *)
(* value of data read by the test or by data++, loc.out the value printed. *)
(***************************************************************************)
Salutations == <<"hello", "greetings", "good day">>

GreetPrograms ==
    {"closuresAndScope", "loopVariablePitfall", "memoryAccessSynchronization"}

InitGreet ==
    /\ cfg \in [prog : GreetPrograms]
    /\ pc = [g \in Goroutines |->
                IF g # Main THEN "idle"
                ELSE CASE cfg.prog = "closuresAndScope" -> "add"
                       [] cfg.prog = "loopVariablePitfall" -> "for"
                       [] OTHER -> "mgo"]
    /\ loc = [g \in Goroutines |-> [i |-> 0, tmp |-> "", v |-> 0, out |-> 0]]
    /\ mem = [salutation |-> IF cfg.prog = "closuresAndScope" THEN "hello" ELSE "",
              data |-> 0]
    /\ mutex = NoMutex
    /\ wg = ZeroWaitGroup
    /\ rw = ZeroRWMutex
    /\ once = NoOnce

\* closuresAndScope: wg.Add(1)
GreetAdd ==
    /\ pc[Main] = "add"
    /\ WgAdd(1)
    /\ Goto(Main, "wggo")
    /\ UNCHANGED <<loc, mem, mutex, rw, once, cfg>>

\* loopVariablePitfall: for _, s := range []string{...} { salutation = s
GreetFor ==
    /\ pc[Main] = "for"
    /\ IF loc[Main].i < Len(Salutations)
       THEN /\ mem' = [mem EXCEPT !.salutation = Salutations[loc[Main].i + 1]]
            /\ Goto(Main, "wggo")
       ELSE /\ Goto(Main, "wait")
            /\ UNCHANGED mem
    /\ UNCHANGED <<loc, mutex, wg, rw, once, cfg>>

\* a wg.Go that starts f without adding to the counter
GreetGoNoAdd ==
    /\ pc[Main] = "wggo"
    /\ loc' = [loc EXCEPT ![Main].i = @ + 1]
    /\ pc' = [pc EXCEPT ![loc[Main].i + 1] = "f",
                        ![Main] = IF cfg.prog = "closuresAndScope" THEN "print" ELSE "for"]
    /\ UNCHANGED <<mem, mutex, wg, rw, once, cfg>>

\* wg.Go(f): wg.Add(1); go func() { defer wg.Done(); f() }()
GreetGo ==
    /\ pc[Main] = "wggo"
    /\ WgAdd(1)
    /\ loc' = [loc EXCEPT ![Main].i = @ + 1]
    /\ pc' = [pc EXCEPT ![loc[Main].i + 1] = "f",
                        ![Main] = IF cfg.prog = "closuresAndScope" THEN "print" ELSE "for"]
    /\ UNCHANGED <<mem, mutex, rw, once, cfg>>

\* closuresAndScope: fmt.Printf("Before goroutine: %s\n", salutation)
GreetPrint ==
    /\ pc[Main] = "print"
    /\ loc' = [loc EXCEPT ![Main].tmp = mem.salutation]
    /\ Goto(Main, "wait")
    /\ UNCHANGED <<mem, mutex, wg, rw, once, cfg>>

\* f: salutation = "welcome" (closuresAndScope), or
\* fmt.Println(salutation) (loopVariablePitfall)
GreetF(g) ==
    /\ pc[g] = "f"
    /\ IF cfg.prog = "closuresAndScope"
       THEN /\ mem' = [mem EXCEPT !.salutation = "welcome"]
            /\ Goto(g, "fdone")
            /\ UNCHANGED loc
       ELSE /\ loc' = [loc EXCEPT ![g].tmp = mem.salutation]
            /\ Goto(g, "wgdone")
            /\ UNCHANGED mem
    /\ UNCHANGED <<mutex, wg, rw, once, cfg>>

\* closuresAndScope: f's own deferred wg.Done()
GreetFDone(g) ==
    /\ pc[g] = "fdone"
    /\ WgDone
    /\ Goto(g, "wgdone")
    /\ UNCHANGED <<loc, mem, mutex, rw, once, cfg>>

\* go func() { memoryAccess.Lock(); data++; memoryAccess.Unlock() }()
MemGo ==
    /\ pc[Main] = "mgo"
    /\ pc' = [pc EXCEPT ![1] = "mlock", ![Main] = "mlock"]
    /\ UNCHANGED <<loc, mem, mutex, wg, rw, once, cfg>>

\* a Lock that does not wait
MemLockUnguarded(g) ==
    /\ pc[g] = "mlock"
    /\ mutex' = [mutex EXCEPT !["memoryAccess"] = TRUE]
    /\ Goto(g, IF g = Main THEN "mtest" ELSE "mread")
    /\ UNCHANGED <<loc, mem, wg, rw, once, cfg>>

\* memoryAccess.Lock(), of the goroutine (2) and of main (4)
MemLock(g) ==
    /\ pc[g] = "mlock"
    /\ MutexLock("memoryAccess")
    /\ Goto(g, IF g = Main THEN "mtest" ELSE "mread")
    /\ UNCHANGED <<loc, mem, wg, rw, once, cfg>>

\* data++: the read
MemRead(g) ==
    /\ pc[g] = "mread"
    /\ loc' = [loc EXCEPT ![g].v = mem.data]
    /\ Goto(g, "mwrite")
    /\ UNCHANGED <<mem, mutex, wg, rw, once, cfg>>

\* data++: the write
MemWrite(g) ==
    /\ pc[g] = "mwrite"
    /\ mem' = [mem EXCEPT !.data = loc[g].v + 1]
    /\ Goto(g, "munlock")
    /\ UNCHANGED <<loc, mutex, wg, rw, once, cfg>>

\* if data == 0 {
MemTest ==
    /\ pc[Main] = "mtest"
    /\ loc' = [loc EXCEPT ![Main].v = mem.data]
    /\ Goto(Main, "mprint")
    /\ UNCHANGED <<mem, mutex, wg, rw, once, cfg>>

\* fmt.Printf("the value is %v.\n", data), the same in both branches
MemPrint ==
    /\ pc[Main] = "mprint"
    /\ loc' = [loc EXCEPT ![Main].out = mem.data]
    /\ Goto(Main, "munlock")
    /\ UNCHANGED <<mem, mutex, wg, rw, once, cfg>>

\* memoryAccess.Unlock(), of the goroutine (3) and of main (5)
MemUnlock(g) ==
    /\ pc[g] = "munlock"
    /\ MutexUnlock("memoryAccess")
    /\ Goto(g, "done")
    /\ UNCHANGED <<loc, mem, wg, rw, once, cfg>>

MemStep(g) ==
    \/ MemLock(g)
    \/ g # Main /\ MemRead(g)
    \/ g # Main /\ MemWrite(g)
    \/ g = Main /\ MemTest
    \/ g = Main /\ MemPrint
    \/ MemUnlock(g)

NextGreet ==
    \/ MemGo
    \/ \E g \in {Main, 1} : MemStep(g)
    \/ GreetAdd
    \/ GreetFor
    \/ GreetGo
    \/ GreetPrint
    \/ WGWait(Main)
    \/ WGWaitWake(Main)
    \/ \E g \in 1..Len(Salutations) : GreetF(g) \/ GreetFDone(g) \/ WGDone(g)

SpecGreet == InitGreet /\ [][NextGreet]_vars

\* C36: in closuresAndScope the WaitGroup counter never goes negative, and
\* when wg.Wait() has returned f has assigned salutation and returned, so
\* salutation is "welcome".
C36_WaitSeesWelcome ==
    cfg.prog = "closuresAndScope" =>
        /\ wg.v >= 0
        /\ wg.panic = "none"
        /\ pc[Main] = "done" => (pc[1] = "done" /\ mem.salutation = "welcome")

\* wg.Wait() has returned after sleeping; main printed "hello" before it.
C36_Witness ==
    /\ cfg.prog = "closuresAndScope"
    /\ pc[Main] = "done"
    /\ loc[Main].tmp = "hello"
    /\ mem.salutation = "welcome"
    /\ wg.v = 0

(***************************************************************************)
(* withoutMutex: main starts cfg.n goroutines with wg.Go, each of which    *)
(* runs count++ with no lock, and prints count after wg.Wait().  count++   *)
(* is a read into a register (loc.tmp) followed by a write.                *)
(***************************************************************************)
InitRacy ==
    /\ cfg \in [n : 2..MaxN]
    /\ pc = [g \in Goroutines |-> IF g = Main THEN "go" ELSE "idle"]
    /\ loc = [g \in Goroutines |-> [i |-> 0, tmp |-> 0]]
    /\ mem = [count |-> 0]
    /\ mutex = NoMutex
    /\ wg = ZeroWaitGroup
    /\ rw = ZeroRWMutex
    /\ once = NoOnce

\* for range 1000 { wg.Go(func() { count++ }) }
RacyGo ==
    /\ pc[Main] = "go"
    /\ IF loc[Main].i < cfg.n
       THEN /\ WgAdd(1)
            /\ loc' = [loc EXCEPT ![Main].i = @ + 1]
            /\ pc' = [pc EXCEPT ![loc[Main].i + 1] = "read"]
       ELSE /\ Goto(Main, "wait")
            /\ UNCHANGED <<wg, loc>>
    /\ UNCHANGED <<mem, mutex, rw, once, cfg>>

\* count++: the read
RacyRead(g) ==
    /\ pc[g] = "read"
    /\ loc' = [loc EXCEPT ![g].tmp = mem.count]
    /\ Goto(g, "write")
    /\ UNCHANGED <<mem, mutex, wg, rw, once, cfg>>

\* a write that stores the value read
RacyWriteSame(g) ==
    /\ pc[g] = "write"
    /\ mem' = [mem EXCEPT !.count = loc[g].tmp]
    /\ Goto(g, "wgdone")
    /\ UNCHANGED <<loc, mutex, wg, rw, once, cfg>>

\* count++: the write
RacyWrite(g) ==
    /\ pc[g] = "write"
    /\ mem' = [mem EXCEPT !.count = loc[g].tmp + 1]
    /\ Goto(g, "wgdone")
    /\ UNCHANGED <<loc, mutex, wg, rw, once, cfg>>

NextRacy ==
    \/ RacyGo
    \/ WGWait(Main)
    \/ WGWaitWake(Main)
    \/ \E g \in Workers : RacyRead(g) \/ RacyWrite(g) \/ WGDone(g)

SpecRacy == InitRacy /\ [][NextRacy]_vars

\* C37: with N >= 2 goroutines each running an unsynchronised count++, the
\* count read after wg.Wait() is at least 1 and at most N; a count below N
\* is reachable (C37_Witness).
C37_CountWithinRange ==
    pc[Main] = "done" => (mem.count >= 1 /\ mem.count <= cfg.n)

\* wg.Wait() has returned and every increment but one was lost.
C37_Witness ==
    /\ pc[Main] = "done"
    /\ cfg.n = MaxN
    /\ mem.count = 1

\* the goroutine is between its Lock and its Unlock of memoryAccess
MemInGoroutine == pc[1] \in {"mread", "mwrite", "munlock"}

\* main is between its Lock and its Unlock of memoryAccess
MemInMain == pc[Main] \in {"mtest", "mprint", "munlock"}

\* C38: in memoryAccessSynchronization the goroutine's data++ and main's
\* reads of data never overlap; while both are about to lock memoryAccess
\* either of them can go first; main reads 0 when it went first and 1 when
\* the goroutine went first, and it reads no other value.
C38_ReadsZeroOrOne ==
    cfg.prog = "memoryAccessSynchronization" =>
        /\ ~(MemInGoroutine /\ MemInMain)
        /\ (pc[Main] = "mlock" /\ pc[1] = "mlock" /\ ~mutex["memoryAccess"])
              => (ENABLED MemLock(Main) /\ ENABLED MemLock(1))
        /\ pc[Main] \in {"mprint", "munlock"}
              => \/ pc[1] = "mlock" /\ loc[Main].v = 0
                 \/ pc[1] = "done" /\ loc[Main].v = 1
        /\ pc[Main] = "done" => loc[Main].v \in {0, 1}
        /\ pc[Main] \in {"munlock", "done"} => loc[Main].out = loc[Main].v

\* The goroutine went first: main has read and printed 1.
C38_Witness ==
    /\ cfg.prog = "memoryAccessSynchronization"
    /\ pc[Main] = "done"
    /\ loc[Main].v = 1
    /\ loc[Main].out = 1

(***************************************************************************)
(* Cache / basicRWMutex with recursive read-locking: a goroutine that      *)
(* holds the read lock calls c.mu.RLock() again before it calls            *)
(* c.mu.RUnlock() ("Note that this prohibits recursive read-locking").     *)
(* loc[g].depth counts the read locks it holds beyond the first and        *)
(* loc[g].rec says that it has made its recursive call.  MaxCallers        *)
(* goroutines use the cache.                                               *)
(***************************************************************************)
InitRecursive ==
    /\ cfg = [n |-> MaxCallers]
    /\ pc = [g \in Workers |-> IF g <= cfg.n THEN "call" ELSE "done"]
    /\ loc = [g \in Workers |->
                [ops |-> 0, value |-> 0, after |-> -1, depth |-> 0, rec |-> FALSE]]
    /\ mem = [data |-> 0]
    /\ mutex = NoMutex
    /\ wg = ZeroWaitGroup
    /\ rw = ZeroRWMutex
    /\ once = NoOnce

\* a second RLock() made after the first read lock was given back
RecRLockReleased(g) ==
    /\ pc[g] = "get"
    /\ ~loc[g].rec
    /\ RwRUnlock
    /\ loc' = [loc EXCEPT ![g].depth = 1, ![g].rec = TRUE]
    /\ Goto(g, "rlock")
    /\ UNCHANGED <<mem, mutex, wg, once, cfg>>

\* mu.RLock(); ...; mu.RLock()
RecRLock(g) ==
    /\ pc[g] = "get"
    /\ ~loc[g].rec
    /\ loc' = [loc EXCEPT ![g].depth = 1, ![g].rec = TRUE]
    /\ Goto(g, "rlock")
    /\ UNCHANGED <<mem, mutex, wg, rw, once, cfg>>

\* the RUnlock() that pairs with the second RLock()
RecRUnlock(g) ==
    /\ pc[g] = "runlock"
    /\ loc[g].depth = 1
    /\ RwRUnlock
    /\ loc' = [loc EXCEPT ![g].depth = 0]
    /\ Goto(g, "get")
    /\ UNCHANGED <<mem, mutex, wg, once, cfg>>

RecStep(g) ==
    \/ CacheCall(g)
    \/ CacheRLock(g)
    \/ CacheRLockWake(g)
    \/ RecRLock(g)
    \/ CacheGet(g)
    \/ RecRUnlock(g)
    \/ loc[g].depth = 0 /\ CacheRUnlock(g)
    \/ CacheLockW(g)
    \/ CacheLockAnnounce(g)
    \/ CacheLockWake(g)
    \/ CacheSet(g)
    \/ CacheUnlock(g)
    \/ CacheUnlockW(g)

NextRecursive == \E g \in Workers : RecStep(g)

SpecRecursive == InitRecursive /\ [][NextRecursive]_vars

\* The goroutine holds a read lock and is blocked in a second RLock().
RecBlocked(g) == pc[g] = "rsem" /\ loc[g].depth = 1

\* C39: when a goroutine that holds a read lock has called RLock() again
\* after a writer called Lock() and queued, the writer is still queued and
\* waits for a reader, neither of the two can be woken, and the goroutine
\* stays blocked in its second RLock() from then on.
C39_RecursiveRLockDeadlocks ==
    /\ [](\A g \in Workers :
            RecBlocked(g) =>
               /\ rw.pending
               /\ rw.readerWait >= 1
               /\ ~rw.writerSem
               /\ g \notin rw.readerWake
               /\ ~ENABLED CacheRLockWake(g)
               /\ \E w \in Workers \ {g} :
                     pc[w] = "wsem" /\ ~ENABLED CacheLockWake(w))
    /\ [][\A g \in Workers : RecBlocked(g) => RecBlocked(g)']_vars

\* Goroutine 1 is blocked in its second RLock() behind writer 2, which
\* waits for the one read lock that goroutine 1 holds.
C39_Witness ==
    /\ RecBlocked(1)
    /\ pc[2] = "wsem"
    /\ rw.readerWait = 1
    /\ rw.readerCount = 2
    /\ ~ENABLED NextRecursive

=============================================================================
